---------------------------- MODULE Spec2Model ----------------------------
(***************************************************************************)
(* A model of git-monitoring: the repository reference parser, the PR      *)
(* approval verdict, the PR compliance scanner (CheckRepository) and the   *)
(* rate-limited API client (ExecuteWithRateLimit).                         *)
(*                                                                         *)
(* Strings are sequences of one-character strings, so that strings.Split   *)
(* is computed and not assumed.  Times are integers; 0 is Go's zero        *)
(* time.Time (an absent timestamp), which is before every other instant.   *)
(***************************************************************************)
EXTENDS Integers, Sequences, FiniteSets, TLC

VARIABLES
    \* --- ParseRepository applied to one input
    pInput,          \* the string handed to ParseRepository
    pOut,            \* its return value, once pDone
    pDone,
    \* --- isPRApproved applied to one list of reviews
    aReviews,        \* the reviews ListPullRequestReviews returned
    aVerdict,        \* the boolean isPRApproved returned, once aDone
    aDone,
    \* --- CheckRepository: the hosting API as the scan sees it
    repository,      \* the "owner/repo" argument
    server,          \* the closed PRs of the repository, as the pages the API serves
    responses,       \* which API calls made so far failed (call -> failed)
    \* --- CheckRepository: its locals
    pc,              \* "start" | "loop" | "examine" | "endpage" | "done"
    page,
    prs,             \* the page being examined
    respNextPage,    \* resp.NextPage of that page
    idx,             \* position of the range loop in prs
    stopFetching,
    consecutivePRsOutsideWindow,
    skippedPRs,
    totalPRs,
    mergedPRsInWindow,
    unapprovedPRs,
    result,          \* the Result returned, once pc = "done"
    \* --- CheckRepository: history, for stating properties
    calls,           \* the API calls issued, in order
    examined,        \* the numbers of the PRs the range loop has taken, in order
    run,             \* 1, or 2 in the second scan of the same repository
    prev,            \* result and calls of the first scan, in the second
    \* --- ExecuteWithRateLimit
    rlPc,            \* "idle" | "wait" | "call" | "status" | "return"
    rlOp,            \* what the operation f returns when invoked: "nil" or an error
    rlErr,           \* the local err
    rlWaitOk,        \* whether RateLimiter.Wait succeeded in this execution
    rlStatus,        \* the reply of the rate-limit status query of this execution
    rlReturned,      \* the value the last completed execution returned
    rlInvocations,   \* how often f was invoked in this execution
    tokens,          \* limiter tokens acquired so far
    requests,        \* requests sent to the hosting API so far
    warnings,        \* low-quota warnings logged so far
    executions,      \* executions of ExecuteWithRateLimit started so far
    \* --- one call of a list helper of the client
    hHelper,         \* the helper called
    hOrg,            \* its org argument (ListOrganizationRepositories)
    hVisibility,     \* its visibility argument (the repository helpers)
    hServer,         \* the pages the API holds for the list asked for
    hFail,           \* the page whose request fails, 0 for none
    hPc,             \* "idle" | "start" | "loop" | "done"
    hPage,           \* the local page
    hAll,            \* the local allRepos / allEvents
    hCalls,          \* the pages asked for through ExecuteWithRateLimit, in order
    hOut,            \* what the helper returned, once hPc = "done"
    \* --- MonitorWithService
    cfg,             \* cfg.Monitors.PRChecker
    mPc,             \* "idle" | "start" | "loop" | "scan" | "done"
    repositories,    \* the local repositories
    mi,              \* how many repositories the loop of line 143 has taken
    results,         \* the local results; the return value once mPc = "done"
    mListCalls,      \* the repository-listing calls made, in order
    mListing,        \* what the listing call returned
    mScanLog,        \* per finished CheckRepository: its argument and API calls
    \* --- repovisibility: Checker.Run
    vCfg,            \* cfg.Monitors.RepoVisibility
    vPc,             \* "idle" | "run" | "repo" | "done"
    vOi,             \* how many organizations the loop of Run has finished
    vRepos,          \* repos of the organization being checked
    vRi,             \* position of the range loop in vRepos
    recentlyPublic,  \* the findings of the organization being checked
    allPublicRepos,  \* the findings of the organizations finished
    vOut,            \* what Run returned, once vPc = "done"
    vCalls,          \* the client calls made, in order
    vEvents,         \* what the last ListRepositoryEvents call returned
    vOrgLog,         \* per organization finished: listing failed?, its findings
    \* --- the run driver (main) and Config.Validate
    dCfg,            \* the configuration LoadConfig returned
    dPc,             \* "idle" | "start" | "pr" | "visibility" | "finished" | "exited"
    dErr,            \* what Validate returned
    dStarted,        \* the monitors started, in order
    dApiCalls,       \* API calls issued by the monitors started
    \* --- runPRChecker
    rResults,        \* what prchecker.Monitor returned
    rPc,             \* "idle" | "range" | "done"
    rI,              \* how many results the range loop has taken
    problematicResults,
    monitorFailed

parseVars == <<pInput, pOut, pDone>>
approvalVars == <<aReviews, aVerdict, aDone>>
envVars == <<repository, server>>
scanVars == <<responses, pc, page, prs, respNextPage, idx, stopFetching,
              consecutivePRsOutsideWindow, skippedPRs, totalPRs, mergedPRsInWindow,
              unapprovedPRs, result, calls, examined, run, prev>>
rlVars == <<rlPc, rlOp, rlErr, rlWaitOk, rlStatus, rlReturned, rlInvocations,
            tokens, requests, warnings, executions>>
pagedVars == <<hHelper, hOrg, hVisibility, hServer, hFail, hPc, hPage, hAll,
               hCalls, hOut>>
monitorVars == <<cfg, mPc, repositories, mi, results, mListCalls, mListing,
                 mScanLog>>
visVars == <<vCfg, vPc, vOi, vRepos, vRi, recentlyPublic, allPublicRepos, vOut,
             vCalls, vEvents, vOrgLog>>
driverVars == <<dCfg, dPc, dErr, dStarted, dApiCalls>>
reportVars == <<rResults, rPc, rI, problematicResults, monitorFailed>>
vars == <<parseVars, approvalVars, envVars, scanVars, rlVars, pagedVars,
          monitorVars, visVars, driverVars,
      reportVars>>

\* What the actions of one component leave alone.
otherThanParse ==
    <<approvalVars, envVars, scanVars, rlVars, pagedVars, monitorVars,
      visVars, driverVars,
      reportVars>>
otherThanApproval ==
    <<parseVars, envVars, scanVars, rlVars, pagedVars, monitorVars,
      visVars, driverVars,
      reportVars>>
otherThanScan ==
    <<parseVars, approvalVars, envVars, rlVars, pagedVars, monitorVars,
      visVars, driverVars,
      reportVars>>
otherThanRateLimit ==
    <<parseVars, approvalVars, envVars, scanVars, pagedVars, monitorVars,
      visVars, driverVars,
      reportVars>>
otherThanPaged ==
    <<parseVars, approvalVars, envVars, scanVars, rlVars, monitorVars,
      visVars, driverVars,
      reportVars>>
\* MonitorWithService calls CheckRepository: it leaves alone what neither does.
otherThanMonitor ==
    <<parseVars, approvalVars, rlVars, pagedVars, visVars, driverVars,
      reportVars>>
otherThanVisibility ==
    <<parseVars, approvalVars, envVars, scanVars, rlVars, pagedVars,
      monitorVars, driverVars,
      reportVars>>
otherThanDriver ==
    <<parseVars, approvalVars, envVars, scanVars, rlVars, pagedVars,
      monitorVars, visVars, reportVars>>
otherThanReport ==
    <<parseVars, approvalVars, envVars, scanVars, rlVars, pagedVars,
      monitorVars, visVars, driverVars>>

(***************************************************************************)
(* Bounds of the model.                                                    *)
(***************************************************************************)
MaxStrLen == 4
MaxReviews == 3
MaxTime == 2

(***************************************************************************)
(* Generic helpers.                                                        *)
(***************************************************************************)
Range(s) == {s[i] : i \in DOMAIN s}

\* Every order in which the keys of a Go map can be visited by range.
Orders(S) == {o \in [1..Cardinality(S) -> S] : Range(o) = S}

(***************************************************************************)
(* Repository Reference Parser (pkg/tools/common/github.go).               *)
(***************************************************************************)
Chars == {"o", "/", " "}

\* strings.Split(s, "/"): the segments between the separators, empty ones kept;
\* a string without separator yields the one-element list holding it.
RECURSIVE Split(_)
Split(s) ==
    IF \A i \in DOMAIN s : s[i] # "/"
    THEN <<s>>
    ELSE LET i == CHOOSE k \in DOMAIN s :
                      /\ s[k] = "/"
                      /\ \A j \in 1..(k - 1) : s[j] # "/"
         IN  <<SubSeq(s, 1, i - 1)>> \o Split(SubSeq(s, i + 1, Len(s)))

\* ParseRepository taking the first two segments of two or more.
ParseRepositoryLoose(s) ==
    LET parts == Split(s)
    IN  IF Len(parts) < 2
        THEN [owner |-> <<>>, repo |-> <<>>, ok |-> FALSE]
        ELSE [owner |-> parts[1], repo |-> parts[2], ok |-> TRUE]

\* ParseRepository (lines 364-370).
ParseRepository(s) ==
    LET parts == Split(s)
    IN  IF Len(parts) # 2
        THEN [owner |-> <<>>, repo |-> <<>>, ok |-> FALSE]
        ELSE [owner |-> parts[1], repo |-> parts[2], ok |-> TRUE]

(***************************************************************************)
(* Approval verdict (isPRApproved, pkg/tools/prchecker/pr_checker.go).     *)
(***************************************************************************)
Reviewers == {"A", "B", "ghost", ""}
ReviewStates == {"APPROVED", "CHANGES_REQUESTED", "COMMENTED", ""}

Review(who, st, at) == [reviewer |-> who, state |-> st, submittedAt |-> at]

\* m[k] = v of a Go map, as a function on the keys present.
MapPut(m, k, v) == [x \in (DOMAIN m) \cup {k} |-> IF x = k THEN v ELSE m[x]]

EmptyMap == [x \in {} |-> ""]

\* The first loop keeping a reviewer's first tracked state instead of the last.
RECURSIVE TrackReviewsFirst(_, _)
TrackReviewsFirst(reviews, m) ==
    IF reviews = <<>>
    THEN m
    ELSE LET review == Head(reviews)
             reviewer == review.reviewer
             state == review.state
         IN  IF state = "" \/ reviewer = "" \/ reviewer = "ghost"
             THEN TrackReviewsFirst(Tail(reviews), m)
             ELSE IF (state = "APPROVED" \/ state = "CHANGES_REQUESTED")
                     /\ reviewer \notin DOMAIN m
                  THEN TrackReviewsFirst(Tail(reviews), MapPut(m, reviewer, state))
                  ELSE TrackReviewsFirst(Tail(reviews), m)

\* The first loop of isPRApproved (lines 405-427): reviews in list order,
\* starting from map m.
RECURSIVE TrackReviews(_, _)
TrackReviews(reviews, m) ==
    IF reviews = <<>>
    THEN m
    ELSE LET review == Head(reviews)
             reviewer == review.reviewer
             state == review.state
         IN  IF state = "" \/ reviewer = "" \/ reviewer = "ghost"
             THEN TrackReviews(Tail(reviews), m)
             ELSE IF state = "APPROVED" \/ state = "CHANGES_REQUESTED"
                  THEN TrackReviews(Tail(reviews), MapPut(m, reviewer, state))
                  ELSE TrackReviews(Tail(reviews), m)

latestReviewByReviewer(reviews) == TrackReviews(reviews, EmptyMap)

\* The second loop returning at the first tracked state it visits.
RECURSIVE RangeLatestFirstWins(_, _, _, _)
RangeLatestFirstWins(latest, order, i, hasApproval) ==
    IF i > Len(order)
    THEN hasApproval
    ELSE IF latest[order[i]] = "APPROVED"
         THEN TRUE
         ELSE IF latest[order[i]] = "CHANGES_REQUESTED"
              THEN FALSE
              ELSE RangeLatestFirstWins(latest, order, i + 1, hasApproval)

\* The second loop returning, at a CHANGES_REQUESTED, the approval seen so far.
RECURSIVE RangeLatestSoFar(_, _, _, _)
RangeLatestSoFar(latest, order, i, hasApproval) ==
    IF i > Len(order)
    THEN hasApproval
    ELSE IF latest[order[i]] = "APPROVED"
         THEN RangeLatestSoFar(latest, order, i + 1, TRUE)
         ELSE IF latest[order[i]] = "CHANGES_REQUESTED"
              THEN hasApproval
              ELSE RangeLatestSoFar(latest, order, i + 1, hasApproval)

\* The second loop of isPRApproved (lines 430-454): the map visited in the
\* order `order`, from position i on.
RECURSIVE RangeLatest(_, _, _, _)
RangeLatest(latest, order, i, hasApproval) ==
    IF i > Len(order)
    THEN hasApproval
    ELSE IF latest[order[i]] = "APPROVED"
         THEN RangeLatest(latest, order, i + 1, TRUE)
         ELSE IF latest[order[i]] = "CHANGES_REQUESTED"
              THEN FALSE
              ELSE RangeLatest(latest, order, i + 1, hasApproval)

\* isPRApproved on the reviews fetched, the map being visited in `order`.
isPRApproved(reviews, order) ==
    RangeLatest(latestReviewByReviewer(reviews), order, 1, FALSE)

\* The orders range may take over the map built from `reviews`.
MapOrders(reviews) == Orders(DOMAIN latestReviewByReviewer(reviews))

(***************************************************************************)
(* PR Compliance Scanner (Service.CheckRepository).                        *)
(***************************************************************************)
MaxPRs == 3

\* time.Now() of the scan and its timeWindow argument, in the model's time unit.
Now == 4
TimeWindow == 2

cutoffTime == Now - TimeWindow

outOfWindowThreshold == 20

\* Before with an absent (zero) time taken as not before anything.
BeforeUnlessZero(t, u) == t # 0 /\ t < u

\* time.Time.Before and time.Time.IsZero.
Before(t, u) == t < u
IsZero(t) == t = 0

\* The review lists a PR of the model may carry: none, one approval, an approval
\* vetoed by another reviewer.
ReviewSamples ==
    { <<>>,
      <<Review("A", "APPROVED", 1)>>,
      <<Review("A", "APPROVED", 1), Review("B", "CHANGES_REQUESTED", 2)>> }

PullRequest(u, m, rs) == [updatedAt |-> u, mergedAt |-> m, reviews |-> rs]

\* The closed PRs of the model: updated inside the window and unmerged, merged
\* just before the cutoff, merged exactly at the cutoff or after it (with each
\* review list); updated before the cutoff (merged before it, or with a merge
\* time later than the update time); without update time.
PRKinds ==
    {PullRequest(cutoffTime + 1, m, <<>>) : m \in {0, cutoffTime - 1}}
    \cup {PullRequest(cutoffTime + 1, m, rs) :
              m \in {cutoffTime, cutoffTime + 1}, rs \in ReviewSamples}
    \cup {PullRequest(cutoffTime - 1, m, <<>>) : m \in {cutoffTime - 1, cutoffTime + 1}}
    \cup {PullRequest(0, cutoffTime + 1, <<>>)}

\* PR numbers: the position in the server's list.
Numbered(list) ==
    [i \in DOMAIN list |->
        [number |-> i, updatedAt |-> list[i].updatedAt,
         mergedAt |-> list[i].mergedAt, reviews |-> list[i].reviews]]

\* The list cut into pages after the positions in `cuts`.
RECURSIVE Paginate(_, _, _)
Paginate(list, cuts, start) ==
    IF start > Len(list)
    THEN <<>>
    ELSE LET ends == {c \in cuts : c >= start}
             e == IF ends = {} THEN Len(list)
                  ELSE CHOOSE c \in ends : \A d \in ends : c <= d
         IN  <<SubSeq(list, start, e)>> \o Paginate(list, cuts, e + 1)

\* The server holds a list of at most n PRs, cut into pages anywhere.
IsServer(srv, n) ==
    \E k \in 0..n : \E l \in [1..k -> PRKinds] : \E cuts \in SUBSET (1..(k - 1)) :
        srv = Paginate(Numbered(l), cuts, 1)

\* Long pages: runs of like PRs, for the counter to come to the threshold.
MaxBlocks == 3

\* Updated inside the window: unmerged, merged before the cutoff, merged
\* inside the window without review and with an approval; and one updated
\* (and merged) before the cutoff.
Unmerged == PullRequest(cutoffTime + 1, 0, <<>>)
MergedBefore == PullRequest(cutoffTime + 1, cutoffTime - 1, <<>>)
MergedInside(rs) == PullRequest(cutoffTime + 1, cutoffTime + 1, rs)
Stale == PullRequest(cutoffTime - 1, cutoffTime - 1, <<>>)

RunLengths ==
    {1, outOfWindowThreshold \div 2 - 1, outOfWindowThreshold \div 2,
     outOfWindowThreshold - 1, outOfWindowThreshold}

\* A run of skipped PRs of one of the lengths, or a single other PR.
Blocks ==
    {[j \in 1..n |-> p] : n \in RunLengths, p \in {Unmerged, MergedBefore}}
    \cup {<<MergedInside(<<>>)>>, <<MergedInside(<<Review("A", "APPROVED", 1)>>)>>,
          <<Stale>>}

RECURSIVE Concat(_)
Concat(seqs) == IF seqs = <<>> THEN <<>> ELSE Head(seqs) \o Concat(Tail(seqs))

\* The positions at which the blocks end, the last one left out.
BlockEnds(bs) == {Len(Concat(SubSeq(bs, 1, i))) : i \in 1..(Len(bs) - 1)}

\* The server holds up to MaxBlocks blocks, a page ending where a block ends.
IsLongServer(srv) ==
    \E k \in 0..MaxBlocks : \E bs \in [1..k -> Blocks] :
        \E cuts \in SUBSET BlockEnds(bs) :
            srv = Paginate(Numbered(Concat(bs)), cuts, 1)

\* Many short pages: up to MaxPages PRs of the four kinds, cut into pages
\* anywhere.
MaxPages == 4

IsShortServer(srv) ==
    \E k \in 0..MaxPages :
        \E l \in [1..k -> {Unmerged, MergedBefore, MergedInside(<<>>), Stale}] :
            \E cuts \in SUBSET (1..(k - 1)) :
                srv = Paginate(Numbered(l), cuts, 1)

\* "o/r", "or", "o/r/x"
RepositoryIds == {<<"o", "/", "r">>, <<"o", "r">>, <<"o", "/", "r", "/", "x">>}

\* What the API serves: the page asked for (empty beyond the last) and the
\* NextPage of its response (0 on the last page).
PageAt(p) == IF p \in DOMAIN server THEN server[p] ELSE <<>>
NextPageAfter(p) == IF p < Len(server) THEN p + 1 ELSE 0

PageCall(p) == [api |-> "GetPullRequests", arg |-> p]
ReviewCall(n) == [api |-> "ListPullRequestReviews", arg |-> n]

\* A call may fail or succeed; the same call gets the same answer again.
MayRespond(call, failed) == call \in DOMAIN responses => responses[call] = failed

Issue(call, failed) ==
    /\ MayRespond(call, failed)
    /\ calls' = Append(calls, call)
    /\ responses' = MapPut(responses, call, failed)

NoError == "nil"

\* result.UnapprovedPRs = unapprovedPRs; return result  (lines 389-390)
ReturnFindings ==
    /\ result' = [result EXCEPT !.UnapprovedPRs = unapprovedPRs]
    /\ pc' = "done"

\* return result, with result.Error set and UnapprovedPRs left unset
ReturnError(e) ==
    /\ result' = [result EXCEPT !.Error = e]
    /\ pc' = "done"

InitLocals ==
    /\ page' = 1
    /\ prs' = <<>>
    /\ respNextPage' = 0
    /\ idx' = 0
    /\ stopFetching' = FALSE
    /\ consecutivePRsOutsideWindow' = 0
    /\ skippedPRs' = 0
    /\ totalPRs' = 0
    /\ mergedPRsInWindow' = 0
    /\ unapprovedPRs' = <<>>

\* Lines 222-267 with the parse failure not returned.
StartNoFailFast ==
    /\ pc = "start"
    /\ LET parsed == ParseRepository(repository)
       IN  result' = [Repository |-> repository, UnapprovedPRs |-> <<>>,
                      Error |-> IF parsed.ok THEN NoError
                                ELSE "invalid repository format"]
    /\ pc' = "loop"
    /\ InitLocals
    /\ UNCHANGED <<responses, calls, examined, run, prev>>
    /\ UNCHANGED otherThanScan

\* Lines 222-267: the result is created, the identifier parsed, the locals set.
Start ==
    /\ pc = "start"
    /\ LET parsed == ParseRepository(repository)
       IN  IF ~parsed.ok
           THEN /\ result' = [Repository |-> repository, UnapprovedPRs |-> <<>>,
                              Error |-> "invalid repository format"]
                /\ pc' = "done"
                /\ UNCHANGED <<page, prs, respNextPage, idx, stopFetching,
                               consecutivePRsOutsideWindow, skippedPRs, totalPRs,
                               mergedPRsInWindow, unapprovedPRs>>
           ELSE /\ result' = [Repository |-> repository, UnapprovedPRs |-> <<>>,
                              Error |-> NoError]
                /\ pc' = "loop"
                /\ InitLocals
    /\ UNCHANGED <<responses, calls, examined, run, prev>>
    /\ UNCHANGED otherThanScan

\* Lines 270-272: the loop head finds stopFetching set.
LoopBreak ==
    /\ pc = "loop"
    /\ stopFetching
    /\ ReturnFindings
    /\ UNCHANGED <<responses, page, prs, respNextPage, idx, stopFetching,
                   consecutivePRsOutsideWindow, skippedPRs, totalPRs,
                   mergedPRsInWindow, unapprovedPRs, calls, examined, run, prev>>
    /\ UNCHANGED otherThanScan

\* Lines 277-281: the page fetch returns an error.
GetPullRequestsFails ==
    /\ pc = "loop"
    /\ ~stopFetching
    /\ Issue(PageCall(page), TRUE)
    /\ ReturnError("error getting pull requests")
    /\ UNCHANGED <<page, prs, respNextPage, idx, stopFetching,
                   consecutivePRsOutsideWindow, skippedPRs, totalPRs,
                   mergedPRsInWindow, unapprovedPRs, examined, run, prev>>
    /\ UNCHANGED otherThanScan

\* Lines 274-289: the page fetch returns a page; an empty one ends the scan.
GetPullRequestsReturns ==
    /\ pc = "loop"
    /\ ~stopFetching
    /\ Issue(PageCall(page), FALSE)
    /\ prs' = PageAt(page)
    /\ respNextPage' = NextPageAfter(page)
    /\ IF Len(PageAt(page)) = 0
       THEN /\ ReturnFindings
            /\ UNCHANGED <<idx, mergedPRsInWindow>>
       ELSE /\ idx' = 1
            /\ mergedPRsInWindow' = 0
            /\ pc' = "examine"
            /\ UNCHANGED result
    /\ UNCHANGED <<page, stopFetching, consecutivePRsOutsideWindow, skippedPRs,
                   totalPRs, unapprovedPRs, examined, run, prev>>
    /\ UNCHANGED otherThanScan

\* The PR the range loop is at.
pr == prs[idx]

\* The range loop takes the PR at idx: totalPRs++ (line 293).
TakePR ==
    /\ pc = "examine"
    /\ idx \in DOMAIN prs
    /\ totalPRs' = totalPRs + 1
    /\ examined' = Append(examined, pr.number)

\* continue, or the end of the range loop after the last PR of the page.
NextPR ==
    /\ idx' = idx + 1
    /\ pc' = IF idx = Len(prs) THEN "endpage" ELSE "examine"

\* Line 298 with the update time compared with now.
UpdatedBeforeNow(p) == Before(p.updatedAt, Now)

\* Line 298: updatedAt.Before(cutoffTime)
UpdatedBeforeCutoff(p) == Before(p.updatedAt, cutoffTime)

MergedBeforeCutoffOrAt(p) == ~Before(cutoffTime, p.mergedAt)

\* Line 317: mergedAt.Before(cutoffTime)
MergedBeforeCutoff(p) == Before(p.mergedAt, cutoffTime)

\* Lines 297-305 with continue in place of the stop.
ExamineUpdatedBeforeCutoffContinue ==
    /\ TakePR
    /\ UpdatedBeforeCutoff(pr)
    /\ NextPR
    /\ UNCHANGED <<responses, page, prs, respNextPage, stopFetching,
                   consecutivePRsOutsideWindow, skippedPRs, mergedPRsInWindow,
                   unapprovedPRs, result, calls, run, prev>>
    /\ UNCHANGED otherThanScan

\* Lines 297-305: updated before the cutoff: stopFetching, break.
ExamineUpdatedBeforeCutoff ==
    /\ TakePR
    /\ UpdatedBeforeCutoff(pr)
    /\ stopFetching' = TRUE
    /\ pc' = "endpage"
    /\ UNCHANGED <<responses, page, prs, respNextPage, idx,
                   consecutivePRsOutsideWindow, skippedPRs, mergedPRsInWindow,
                   unapprovedPRs, result, calls, run, prev>>
    /\ UNCHANGED otherThanScan

\* Lines 308-313 with the threshold check of lines 324-331 added.
ExamineUnmergedStopping ==
    /\ TakePR
    /\ ~UpdatedBeforeCutoff(pr)
    /\ IsZero(pr.mergedAt)
    /\ skippedPRs' = skippedPRs + 1
    /\ consecutivePRsOutsideWindow' = consecutivePRsOutsideWindow + 1
    /\ IF consecutivePRsOutsideWindow + 1 >= outOfWindowThreshold
       THEN /\ stopFetching' = TRUE
            /\ pc' = "endpage"
            /\ UNCHANGED idx
       ELSE /\ NextPR
            /\ UNCHANGED stopFetching
    /\ UNCHANGED <<responses, page, prs, respNextPage, mergedPRsInWindow,
                   unapprovedPRs, result, calls, run, prev>>
    /\ UNCHANGED otherThanScan

\* Lines 308-313: not merged: skipped, continue.
ExamineUnmerged ==
    /\ TakePR
    /\ ~UpdatedBeforeCutoff(pr)
    /\ IsZero(pr.mergedAt)
    /\ skippedPRs' = skippedPRs + 1
    /\ consecutivePRsOutsideWindow' = consecutivePRsOutsideWindow + 1
    /\ NextPR
    /\ UNCHANGED <<responses, page, prs, respNextPage, stopFetching,
                   mergedPRsInWindow, unapprovedPRs, result, calls, run, prev>>
    /\ UNCHANGED otherThanScan

\* Lines 316-333: merged before the cutoff: skipped; at the threshold, stop.
ExamineMergedBeforeCutoff ==
    /\ TakePR
    /\ ~UpdatedBeforeCutoff(pr)
    /\ ~IsZero(pr.mergedAt)
    /\ MergedBeforeCutoff(pr)
    /\ skippedPRs' = skippedPRs + 1
    /\ consecutivePRsOutsideWindow' = consecutivePRsOutsideWindow + 1
    /\ IF consecutivePRsOutsideWindow + 1 >= outOfWindowThreshold
       THEN /\ stopFetching' = TRUE
            /\ pc' = "endpage"
            /\ UNCHANGED idx
       ELSE /\ NextPR
            /\ UNCHANGED stopFetching
    /\ UNCHANGED <<responses, page, prs, respNextPage, mergedPRsInWindow,
                   unapprovedPRs, result, calls, run, prev>>
    /\ UNCHANGED otherThanScan

\* The PR is merged inside the window: lines 336-338.
InWindow ==
    /\ TakePR
    /\ ~UpdatedBeforeCutoff(pr)
    /\ ~IsZero(pr.mergedAt)
    /\ ~MergedBeforeCutoff(pr)
    /\ consecutivePRsOutsideWindow' = 0
    /\ mergedPRsInWindow' = mergedPRsInWindow + 1

\* Lines 347-351 (and 395-398) with the partial findings put into the result.
ExamineInWindowReviewsFailKeepingFindings ==
    /\ InWindow
    /\ Issue(ReviewCall(pr.number), TRUE)
    /\ result' = [result EXCEPT !.Error = "error checking PR approval",
                                !.UnapprovedPRs = unapprovedPRs]
    /\ pc' = "done"
    /\ UNCHANGED <<page, prs, respNextPage, idx, stopFetching, skippedPRs,
                   unapprovedPRs, run, prev>>
    /\ UNCHANGED otherThanScan

\* Lines 347-351 (and 395-398): the review fetch returns an error.
ExamineInWindowReviewsFail ==
    /\ InWindow
    /\ Issue(ReviewCall(pr.number), TRUE)
    /\ ReturnError("error checking PR approval")
    /\ UNCHANGED <<page, prs, respNextPage, idx, stopFetching, skippedPRs,
                   unapprovedPRs, run, prev>>
    /\ UNCHANGED otherThanScan

\* Lines 347-360 with the PR recorded whatever the verdict.
ExamineInWindowRecordingAll ==
    /\ InWindow
    /\ Issue(ReviewCall(pr.number), FALSE)
    /\ unapprovedPRs' = Append(unapprovedPRs, [Number |-> pr.number])
    /\ NextPR
    /\ UNCHANGED <<page, prs, respNextPage, stopFetching, skippedPRs, result,
                   run, prev>>
    /\ UNCHANGED otherThanScan

\* Lines 347-360 (and 395-455): the reviews are fetched, the verdict computed
\* (the map visited in any order), an unapproved PR recorded.
ExamineInWindow ==
    /\ InWindow
    /\ Issue(ReviewCall(pr.number), FALSE)
    /\ \E order \in MapOrders(pr.reviews) :
          LET isApproved == isPRApproved(pr.reviews, order)
          IN  unapprovedPRs' = IF ~isApproved
                               THEN Append(unapprovedPRs, [Number |-> pr.number])
                               ELSE unapprovedPRs
    /\ NextPR
    /\ UNCHANGED <<page, prs, respNextPage, stopFetching, skippedPRs, result,
                   run, prev>>
    /\ UNCHANGED otherThanScan

\* Lines 367-369: after the page, stopFetching or no next page: break.
EndPageBreak ==
    /\ pc = "endpage"
    /\ stopFetching \/ respNextPage = 0
    /\ ReturnFindings
    /\ UNCHANGED <<responses, page, prs, respNextPage, idx, stopFetching,
                   consecutivePRsOutsideWindow, skippedPRs, totalPRs,
                   mergedPRsInWindow, unapprovedPRs, calls, examined, run, prev>>
    /\ UNCHANGED otherThanScan

\* Lines 367-383 without the page-level increase of lines 373-381.
EndPageNextNoDecay ==
    /\ pc = "endpage"
    /\ ~(stopFetching \/ respNextPage = 0)
    /\ page' = respNextPage
    /\ pc' = "loop"
    /\ UNCHANGED <<responses, prs, respNextPage, idx, stopFetching,
                   consecutivePRsOutsideWindow, skippedPRs, totalPRs,
                   mergedPRsInWindow, unapprovedPRs, result, calls, examined,
                   run, prev>>
    /\ UNCHANGED otherThanScan

\* Lines 373-383 with the counter reset after a page with an in-window PR.
EndPageNextResetting ==
    /\ pc = "endpage"
    /\ ~(stopFetching \/ respNextPage = 0)
    /\ IF mergedPRsInWindow = 0
       THEN /\ consecutivePRsOutsideWindow' =
                   consecutivePRsOutsideWindow + outOfWindowThreshold \div 2
            /\ stopFetching' =
                   (consecutivePRsOutsideWindow + outOfWindowThreshold \div 2
                        >= outOfWindowThreshold)
       ELSE /\ consecutivePRsOutsideWindow' = 0
            /\ UNCHANGED stopFetching
    /\ page' = respNextPage
    /\ pc' = "loop"
    /\ UNCHANGED <<responses, prs, respNextPage, idx, skippedPRs, totalPRs,
                   mergedPRsInWindow, unapprovedPRs, result, calls, examined,
                   run, prev>>
    /\ UNCHANGED otherThanScan

\* Lines 373-383 with the increase made after every page.
EndPageNextAlwaysDecay ==
    /\ pc = "endpage"
    /\ ~(stopFetching \/ respNextPage = 0)
    /\ consecutivePRsOutsideWindow' =
           consecutivePRsOutsideWindow + outOfWindowThreshold \div 2
    /\ stopFetching' =
           (consecutivePRsOutsideWindow + outOfWindowThreshold \div 2
                >= outOfWindowThreshold)
    /\ page' = respNextPage
    /\ pc' = "loop"
    /\ UNCHANGED <<responses, prs, respNextPage, idx, skippedPRs, totalPRs,
                   mergedPRsInWindow, unapprovedPRs, result, calls, examined,
                   run, prev>>
    /\ UNCHANGED otherThanScan

\* Lines 373-383 with the same page asked for again.
EndPageNextSamePage ==
    /\ pc = "endpage"
    /\ ~(stopFetching \/ respNextPage = 0)
    /\ IF mergedPRsInWindow = 0
       THEN /\ consecutivePRsOutsideWindow' =
                   consecutivePRsOutsideWindow + outOfWindowThreshold \div 2
            /\ stopFetching' =
                   (consecutivePRsOutsideWindow + outOfWindowThreshold \div 2
                        >= outOfWindowThreshold)
       ELSE UNCHANGED <<consecutivePRsOutsideWindow, stopFetching>>
    /\ pc' = "loop"
    /\ UNCHANGED <<responses, page, prs, respNextPage, idx, skippedPRs, totalPRs,
                   mergedPRsInWindow, unapprovedPRs, result, calls, examined,
                   run, prev>>
    /\ UNCHANGED otherThanScan

\* Lines 373-383: the page-level increase of the counter, then the next page.
EndPageNext ==
    /\ pc = "endpage"
    /\ ~(stopFetching \/ respNextPage = 0)
    /\ IF mergedPRsInWindow = 0
       THEN /\ consecutivePRsOutsideWindow' =
                   consecutivePRsOutsideWindow + outOfWindowThreshold \div 2
            /\ stopFetching' =
                   (consecutivePRsOutsideWindow + outOfWindowThreshold \div 2
                        >= outOfWindowThreshold)
       ELSE UNCHANGED <<consecutivePRsOutsideWindow, stopFetching>>
    /\ page' = respNextPage
    /\ pc' = "loop"
    /\ UNCHANGED <<responses, prs, respNextPage, idx, skippedPRs, totalPRs,
                   mergedPRsInWindow, unapprovedPRs, result, calls, examined,
                   run, prev>>
    /\ UNCHANGED otherThanScan

\* CheckRepository is called again for the same repository (the same
\* identifier twice in the list MonitorWithService walks).
Rerun ==
    /\ pc = "done"
    /\ run = 1
    /\ run' = 2
    /\ prev' = [result |-> result, calls |-> calls]
    /\ pc' = "start"
    /\ calls' = <<>>
    /\ examined' = <<>>
    /\ InitLocals
    /\ UNCHANGED <<responses, result>>
    /\ UNCHANGED otherThanScan

(***************************************************************************)
(* Rate-Limited API Client (GitHubClient.ExecuteWithRateLimit).            *)
(***************************************************************************)
MaxExecutions == 2

\* Below this remaining quota a warning is logged.
LowRemaining == 100

\* What the operation f may return.
OpResults == {"nil", "API error", "not found"}

WaitError == "rate: Wait(n=1) would exceed context deadline"

\* The replies of Client.RateLimits: an error, or rate limits without or with
\* Core, the remaining quota below the mark or at it.
StatusReply(e, c, r) == [err |-> e, core |-> c, remaining |-> r]

StatusReplies ==
    { StatusReply("rate limit query failed", FALSE, 0),
      StatusReply("nil", FALSE, 0),
      StatusReply("nil", TRUE, LowRemaining - 1),
      StatusReply("nil", TRUE, LowRemaining) }

NoStatus == StatusReply("none", FALSE, 0)

\* ExecuteWithRateLimit(ctx, f) is called, f being an operation that will
\* return rlOp.
Execute ==
    /\ rlPc = "idle"
    /\ executions < MaxExecutions
    /\ executions' = executions + 1
    /\ \E op \in OpResults : rlOp' = op
    /\ rlErr' = "nil"
    /\ rlWaitOk' = FALSE
    /\ rlStatus' = NoStatus
    /\ rlInvocations' = 0
    /\ rlPc' = "wait"
    /\ UNCHANGED <<rlReturned, tokens, requests, warnings>>
    /\ UNCHANGED otherThanRateLimit

\* Lines 118-120 with the failure of Wait ignored: the operation is invoked.
WaitFailsIgnored ==
    /\ rlPc = "wait"
    /\ rlPc' = "call"
    /\ UNCHANGED <<rlOp, rlErr, rlWaitOk, rlStatus, rlReturned, rlInvocations,
                   tokens, requests, warnings, executions>>
    /\ UNCHANGED otherThanRateLimit

\* Lines 118-120: RateLimiter.Wait fails; its error is returned.
WaitFails ==
    /\ rlPc = "wait"
    /\ rlReturned' = WaitError
    /\ rlPc' = "idle"
    /\ UNCHANGED <<rlOp, rlErr, rlWaitOk, rlStatus, rlInvocations, tokens,
                   requests, warnings, executions>>
    /\ UNCHANGED otherThanRateLimit

\* Line 118: RateLimiter.Wait succeeds: one token is taken.
WaitSucceeds ==
    /\ rlPc = "wait"
    /\ rlWaitOk' = TRUE
    /\ tokens' = tokens + 1
    /\ rlPc' = "call"
    /\ UNCHANGED <<rlOp, rlErr, rlStatus, rlReturned, rlInvocations, requests,
                   warnings, executions>>
    /\ UNCHANGED otherThanRateLimit

\* Line 122: err := f(); f sends its request.
InvokeOperation ==
    /\ rlPc = "call"
    /\ rlErr' = rlOp
    /\ rlInvocations' = rlInvocations + 1
    /\ requests' = requests + 1
    /\ rlPc' = "status"
    /\ UNCHANGED <<rlOp, rlWaitOk, rlStatus, rlReturned, tokens, warnings,
                   executions>>
    /\ UNCHANGED otherThanRateLimit

LowQuota(reply) ==
    reply.err = "nil" /\ reply.core /\ reply.remaining < LowRemaining

\* Lines 125-129: the rate-limit status query and the warning.
QueryRateLimits ==
    /\ rlPc = "status"
    /\ \E reply \in StatusReplies :
          /\ rlStatus' = reply
          /\ warnings' = IF LowQuota(reply) THEN warnings + 1 ELSE warnings
    /\ requests' = requests + 1
    /\ rlPc' = "return"
    /\ UNCHANGED <<rlOp, rlErr, rlWaitOk, rlReturned, rlInvocations, tokens,
                   executions>>
    /\ UNCHANGED otherThanRateLimit

\* Line 131 returning the status query's error when there is one.
ReturnStatusError ==
    /\ rlPc = "return"
    /\ rlReturned' = IF rlStatus.err # "nil" THEN rlStatus.err ELSE rlErr
    /\ rlPc' = "idle"
    /\ UNCHANGED <<rlOp, rlErr, rlWaitOk, rlStatus, rlInvocations, tokens,
                   requests, warnings, executions>>
    /\ UNCHANGED otherThanRateLimit

\* Line 131: return err.
Return ==
    /\ rlPc = "return"
    /\ rlReturned' = rlErr
    /\ rlPc' = "idle"
    /\ UNCHANGED <<rlOp, rlErr, rlWaitOk, rlStatus, rlInvocations, tokens,
                   requests, warnings, executions>>
    /\ UNCHANGED otherThanRateLimit

(***************************************************************************)
(* The list helpers of the client (pkg/tools/common/github.go).            *)
(***************************************************************************)
MaxItems == 3

RepositoryHelpers == {"ListUserRepositories", "ListOrganizationRepositories"}

EventHelpers ==
    {"ListRepositoryEvents", "ListUserEventsForOrganization",
     "ListRepositoryPublicEvents"}

\* The helpers that loop over the pages.
LoopingHelpers == RepositoryHelpers \cup EventHelpers

Helpers == LoopingHelpers \cup {"ListPullRequestReviews"}

\* The visibility values a caller may pass, the last one not accepted.
Visibilities == {"all", "public-only", "private-only", "specific"}

\* The API holds at most n items (numbered in list order), cut into pages.
IsPagedList(srv, n) ==
    \E k \in 0..n : \E cuts \in SUBSET (1..(k - 1)) :
        srv = Paginate([i \in 1..k |-> i], cuts, 1)

\* The page served for page number p and the NextPage of its response.
HPageAt(p) == IF p \in DOMAIN hServer THEN hServer[p] ELSE <<>>
HNextPageAfter(p) == IF p < Len(hServer) THEN p + 1 ELSE 0

HelperReturns(items, e) ==
    /\ hOut' = [items |-> items, err |-> e]
    /\ hPc' = "done"

\* ListPullRequestReviews (lines 148-158) as isPRApproved calls it, with nil
\* options: one request, which the API answers with the first page.
ListPullRequestReviews ==
    /\ hPc = "start"
    /\ hHelper = "ListPullRequestReviews"
    /\ hCalls' = Append(hCalls, 1)
    /\ IF hFail = 1
       THEN HelperReturns(<<>>, "API error")
       ELSE HelperReturns(HPageAt(1), "nil")
    /\ UNCHANGED <<hHelper, hOrg, hVisibility, hServer, hFail, hPage, hAll>>
    /\ UNCHANGED otherThanPaged

\* The head of a looping helper (lines 209-230 and alike): the arguments are
\* checked by the repository helpers, then page := 1.
ListStart ==
    /\ hPc = "start"
    /\ hHelper \in LoopingHelpers
    /\ IF hHelper = "ListOrganizationRepositories" /\ hOrg = ""
       THEN /\ HelperReturns(<<>>, "organization name cannot be empty")
            /\ UNCHANGED hPage
       ELSE IF hHelper \in RepositoryHelpers
                  /\ hVisibility \notin {"public-only", "private-only", "all"}
       THEN /\ HelperReturns(<<>>, "invalid repository visibility")
            /\ UNCHANGED hPage
       ELSE /\ hPage' = 1
            /\ hPc' = "loop"
            /\ UNCHANGED hOut
    /\ UNCHANGED <<hHelper, hOrg, hVisibility, hServer, hFail, hAll, hCalls>>
    /\ UNCHANGED otherThanPaged

\* Lines 237-245: the request for the page fails; nil and the error are returned.
ListFetchFails ==
    /\ hPc = "loop"
    /\ hFail = hPage
    /\ hCalls' = Append(hCalls, hPage)
    /\ HelperReturns(<<>>, "API error")
    /\ UNCHANGED <<hHelper, hOrg, hVisibility, hServer, hFail, hPage, hAll>>
    /\ UNCHANGED otherThanPaged

\* Lines 233-255: the page is fetched and appended; without a next page the
\* helper returns, else it goes on with resp.NextPage.
ListFetchPage ==
    /\ hPc = "loop"
    /\ hFail # hPage
    /\ hCalls' = Append(hCalls, hPage)
    /\ hAll' = hAll \o HPageAt(hPage)
    /\ IF HNextPageAfter(hPage) = 0
       THEN /\ HelperReturns(hAll \o HPageAt(hPage), "nil")
            /\ UNCHANGED hPage
       ELSE /\ hPage' = HNextPageAfter(hPage)
            /\ UNCHANGED <<hOut, hPc>>
    /\ UNCHANGED <<hHelper, hOrg, hVisibility, hServer, hFail>>
    /\ UNCHANGED otherThanPaged

(***************************************************************************)
(* Repository Set Resolver and scan loop (MonitorWithService).             *)
(***************************************************************************)
MaxRepos == 2
MaxScanPRs == 1

\* "o/r", "o/s": full names as the listing returns them.
ListedNames == {<<"o", "/", "r">>, <<"o", "/", "s">>}

\* What a configuration may list: the same, and the malformed "or".
ConfiguredNames == ListedNames \cup {<<"o", "r">>}

\* The values of repo_visibility: the four accepted ones and another.
MonitorModes == Visibilities \cup {"internal"}

Organizations == {"", "acme"}

ListsOf(S, n) == UNION {[1..k -> S] : k \in 0..n}

\* cfg.Monitors.PRChecker; the list of specific repositories is left empty
\* (its default) when another mode is chosen.
IsPRCheckerConfig(c) ==
    \E en \in BOOLEAN, mode \in MonitorModes, org \in Organizations :
        \E specific \in (IF mode = "specific"
                         THEN ListsOf(ConfiguredNames, MaxRepos) ELSE {<<>>}) :
            \E excluded \in ListsOf(ListedNames, 1) :
                c = [Enabled |-> en, RepoVisibility |-> mode, Organization |-> org,
                     SpecificRepositories |-> specific,
                     ExcludedRepositories |-> excluded]

\* What ListOrganizationRepositories / ListUserRepositories may return.
ListingAnswer(repos, e) == [repos |-> repos, err |-> e]

NoListing == ListingAnswer(<<>>, "none")

ListingAnswers ==
    {ListingAnswer(<<>>, "API error")}
    \cup {ListingAnswer(repos, "nil") : repos \in ListsOf(ListedNames, MaxRepos)}

\* Lines 79-98: the organization's repositories when one is named, else the
\* authenticated user's.
ListingCall ==
    IF cfg.Organization # ""
    THEN [api |-> "ListOrganizationRepositories", org |-> cfg.Organization,
          visibility |-> cfg.RepoVisibility]
    ELSE [api |-> "ListUserRepositories", org |-> "",
          visibility |-> cfg.RepoVisibility]

\* Lines 112-115: the map of excluded repositories.
excludedRepos == Range(cfg.ExcludedRepositories)

\* Lines 118-125: the full names not excluded, appended in listing order.
RECURSIVE AppendNotExcluded(_, _, _)
AppendNotExcluded(repos, excluded, acc) ==
    IF repos = <<>>
    THEN acc
    ELSE LET repoFullName == Head(repos)
         IN  IF repoFullName \notin excluded
             THEN AppendNotExcluded(Tail(repos), excluded,
                                    Append(acc, repoFullName))
             ELSE AppendNotExcluded(Tail(repos), excluded, acc)

\* Three pages of one PR each: two unmerged PRs updated inside the window,
\* then a PR merged inside the window without review.
ThreePageServer ==
    Paginate(Numbered(<<PullRequest(cutoffTime + 1, 0, <<>>),
                        PullRequest(cutoffTime + 1, 0, <<>>),
                        PullRequest(cutoffTime + 1, cutoffTime + 1, <<>>)>>),
             {1, 2}, 1)

\* The closed PRs a scanned repository may have: any list of at most
\* MaxScanPRs PRs, or the three pages above.
IsScannedServer(srv) == IsServer(srv, MaxScanPRs) \/ srv = ThreePageServer

ErrorResult(label, e) ==
    [Repository |-> label, UnapprovedPRs |-> <<>>, Error |-> e]

\* return of MonitorWithService before the scan loop
MonitorReturns(rs) ==
    /\ results' = rs
    /\ mPc' = "done"
    /\ UNCHANGED <<repositories, mi>>

\* Lines 140-142: the scan loop is entered with the resolved list.
EnterLoop(repos) ==
    /\ repositories' = repos
    /\ results' = <<>>
    /\ mi' = 0
    /\ mPc' = "loop"

\* Lines 60-62: the PR checker is disabled: nil is returned.
MonitorDisabled ==
    /\ mPc = "start"
    /\ ~cfg.Enabled
    /\ MonitorReturns(<<>>)
    /\ UNCHANGED <<cfg, mListCalls, mListing, mScanLog>>
    /\ UNCHANGED <<envVars, scanVars, otherThanMonitor>>

\* Lines 70-72 with the excluded repositories dropped from the configured list.
ResolveSpecificExcluding ==
    /\ mPc = "start"
    /\ cfg.Enabled
    /\ cfg.RepoVisibility = "specific"
    /\ EnterLoop(AppendNotExcluded(cfg.SpecificRepositories, excludedRepos, <<>>))
    /\ UNCHANGED <<cfg, mListCalls, mListing, mScanLog>>
    /\ UNCHANGED <<envVars, scanVars, otherThanMonitor>>

\* Lines 70-72: mode "specific": the configured list.
ResolveSpecific ==
    /\ mPc = "start"
    /\ cfg.Enabled
    /\ cfg.RepoVisibility = "specific"
    /\ EnterLoop(cfg.SpecificRepositories)
    /\ UNCHANGED <<cfg, mListCalls, mListing, mScanLog>>
    /\ UNCHANGED <<envVars, scanVars, otherThanMonitor>>

ListingFailureResult ==
    IF cfg.Organization # ""
    THEN ErrorResult(<<"org:", cfg.Organization>>,
                     "failed to fetch organization repositories")
    ELSE ErrorResult(<<"user-repositories">>, "failed to fetch user repositories")

\* Lines 83-105 with the listing error dropped: an empty list is scanned.
ResolveListingFailsSilently ==
    /\ mPc = "start"
    /\ cfg.Enabled
    /\ cfg.RepoVisibility \in {"all", "public-only", "private-only"}
    /\ mListCalls' = Append(mListCalls, ListingCall)
    /\ mListing' = ListingAnswer(<<>>, "API error")
    /\ EnterLoop(<<>>)
    /\ UNCHANGED <<cfg, mScanLog>>
    /\ UNCHANGED <<envVars, scanVars, otherThanMonitor>>

\* Lines 73-105: the listing call returns an error: one result carrying it.
ResolveListingFails ==
    /\ mPc = "start"
    /\ cfg.Enabled
    /\ cfg.RepoVisibility \in {"all", "public-only", "private-only"}
    /\ mListCalls' = Append(mListCalls, ListingCall)
    /\ mListing' = ListingAnswer(<<>>, "API error")
    /\ MonitorReturns(<<ListingFailureResult>>)
    /\ UNCHANGED <<cfg, mScanLog>>
    /\ UNCHANGED <<envVars, scanVars, otherThanMonitor>>

\* Lines 73-129 and 140-142: the listing call returns repositories; those not
\* excluded make the list.
ResolveListing ==
    /\ mPc = "start"
    /\ cfg.Enabled
    /\ cfg.RepoVisibility \in {"all", "public-only", "private-only"}
    /\ mListCalls' = Append(mListCalls, ListingCall)
    /\ \E answer \in ListingAnswers :
          /\ answer.err = "nil"
          /\ mListing' = answer
          /\ EnterLoop(AppendNotExcluded(answer.repos, excludedRepos, <<>>))
    /\ UNCHANGED <<cfg, mScanLog>>
    /\ UNCHANGED <<envVars, scanVars, otherThanMonitor>>

\* Lines 130-137: any other mode: one result carrying the error.
ResolveInvalid ==
    /\ mPc = "start"
    /\ cfg.Enabled
    /\ cfg.RepoVisibility
           \notin {"specific", "all", "public-only", "private-only"}
    /\ MonitorReturns(<<ErrorResult(<<"all-repositories">>,
                                    "invalid repository visibility setting")>>)
    /\ UNCHANGED <<cfg, mListCalls, mListing, mScanLog>>
    /\ UNCHANGED <<envVars, scanVars, otherThanMonitor>>

\* Lines 143-145: the loop takes the next repository and calls
\* CheckRepository for it, against whatever closed PRs that repository has.
CallCheckRepository ==
    /\ mPc = "loop"
    /\ mi < Len(repositories)
    /\ mi' = mi + 1
    /\ repository' = repositories[mi + 1]
    /\ IsScannedServer(server')
    /\ responses' = [c \in {} |-> FALSE]
    /\ pc' = "start"
    /\ page' = 0
    /\ prs' = <<>>
    /\ respNextPage' = 0
    /\ idx' = 0
    /\ stopFetching' = FALSE
    /\ consecutivePRsOutsideWindow' = 0
    /\ skippedPRs' = 0
    /\ totalPRs' = 0
    /\ mergedPRsInWindow' = 0
    /\ unapprovedPRs' = <<>>
    /\ result' = ErrorResult(<<>>, NoError)
    /\ calls' = <<>>
    /\ examined' = <<>>
    /\ mPc' = "scan"
    /\ UNCHANGED <<run, prev>>
    /\ UNCHANGED <<cfg, repositories, results, mListCalls, mListing, mScanLog>>
    /\ UNCHANGED otherThanMonitor

ScanRecord == [repo |-> repository, calls |-> calls]

\* Lines 145-146 with the loop left at the first result carrying an error.
AppendResultStopOnError ==
    /\ mPc = "scan"
    /\ pc = "done"
    /\ results' = Append(results, result)
    /\ mScanLog' = Append(mScanLog, ScanRecord)
    /\ mPc' = IF result.Error # NoError THEN "done" ELSE "loop"
    /\ UNCHANGED <<cfg, repositories, mi, mListCalls, mListing>>
    /\ UNCHANGED <<envVars, scanVars, otherThanMonitor>>

\* Lines 145-146: CheckRepository has returned; its result is appended.
AppendResult ==
    /\ mPc = "scan"
    /\ pc = "done"
    /\ results' = Append(results, result)
    /\ mScanLog' = Append(mScanLog, ScanRecord)
    /\ mPc' = "loop"
    /\ UNCHANGED <<cfg, repositories, mi, mListCalls, mListing>>
    /\ UNCHANGED <<envVars, scanVars, otherThanMonitor>>

\* Lines 143 and 148-150: the list is exhausted: results is returned.
MonitorReturn ==
    /\ mPc = "loop"
    /\ mi >= Len(repositories)
    /\ mPc' = "done"
    /\ UNCHANGED <<cfg, repositories, mi, results, mListCalls, mListing, mScanLog>>
    /\ UNCHANGED <<envVars, scanVars, otherThanMonitor>>

(***************************************************************************)
(* Visibility Change Scanner (package repovisibility, Checker.Run).        *)
(***************************************************************************)
MaxOrgs == 2
MaxListed == 2
MaxEvents == 2

\* r.checkWindow, in the model's time unit.
CheckWindow == 2

\* cutoffTime := time.Now().Add(-r.checkWindow)
visCutoffTime == Now - CheckWindow

OrgNames == {"acme", "beta"}

\* cfg.Monitors.RepoVisibility as Run reads it.
IsVisibilityConfig(c) ==
    \E mode \in MonitorModes : \E orgs \in ListsOf(OrgNames, MaxOrgs) :
        c = [RepoVisibility |-> mode, Organizations |-> orgs]

\* The timestamps the scanner tells apart: absent, before the cutoff, at it.
VisTimes == {0, visCutoffTime - 1, visCutoffTime}

Repository(name, private, at) ==
    [name |-> name, private |-> private, createdAt |-> at]

\* The i-th repository of a listing is named by its position.
RepoName(i) == <<"r", i>>

Event(type, at) == [type |-> type, createdAt |-> at]

EventKinds == {Event(t, at) : t \in {"PublicEvent", "PushEvent"}, at \in VisTimes}

\* What ListRepositoryEvents may return.
EventsAnswer(events, e) == [events |-> events, err |-> e]

NoEvents == EventsAnswer(<<>>, "none")

EventsAnswers ==
    {EventsAnswer(<<>>, "API error")}
    \cup {EventsAnswer(ev, "nil") : ev \in ListsOf(EventKinds, MaxEvents)}

\* The API lists the repositories of the type asked for.
Serves(filter, repos) ==
    \A i \in DOMAIN repos :
        /\ filter = "public-only" => ~repos[i].private
        /\ filter = "private-only" => repos[i].private

\* What ListOrganizationRepositories may return for the filter.
IsListing(repos, filter) ==
    \E k \in 0..MaxListed :
        \E flags \in [1..k -> BOOLEAN \X VisTimes] :
            /\ repos = [i \in 1..k |-> Repository(RepoName(i), flags[i][1], flags[i][2])]
            /\ Serves(filter, repos)

\* Lines 45 and 198-207: CheckOrganization (mode "specific") lists the public
\* repositories; CheckOrganizationWithVisibility passes the mode on.
visibilityFilter ==
    IF vCfg.RepoVisibility = "specific" THEN "public-only" ELSE vCfg.RepoVisibility

orgName == vCfg.Organizations[vOi + 1]

repo == vRepos[vRi]

OrgListCall ==
    [api |-> "ListOrganizationRepositories", owner |-> orgName,
     arg |-> visibilityFilter]

EventsCall == [api |-> "ListRepositoryEvents", owner |-> orgName, arg |-> repo.name]

\* fmt.Sprintf("%s/%s", orgName, repo.GetName())
FindingId == <<orgName, "/", repo.name>>

\* Lines 92-110 going on past an event older than the cutoff.
RECURSIVE wasRecentlyMadePublicNoStop(_)
wasRecentlyMadePublicNoStop(events) ==
    IF events = <<>>
    THEN FALSE
    ELSE LET event == Head(events)
         IN  IF event.type = "PublicEvent" /\ ~(event.createdAt # 0
                                               /\ Before(event.createdAt, visCutoffTime))
             THEN TRUE
             ELSE wasRecentlyMadePublicNoStop(Tail(events))

\* wasRecentlyMadePublic on the events fetched (lines 89-110).
RECURSIVE wasRecentlyMadePublic(_)
wasRecentlyMadePublic(events) ==
    IF events = <<>>
    THEN FALSE
    ELSE LET event == Head(events)
             isInWindow == IF event.createdAt # 0
                           THEN ~Before(event.createdAt, visCutoffTime)
                           ELSE TRUE
         IN  IF ~isInWindow
             THEN FALSE
             ELSE IF event.type = "PublicEvent"
                  THEN TRUE
                  ELSE wasRecentlyMadePublic(Tail(events))

\* Lines 56-59 / 230-233.
isRecent(r) ==
    IF r.createdAt # 0 THEN ~Before(r.createdAt, visCutoffTime) ELSE TRUE

ValidRunMode == vCfg.RepoVisibility \in {"specific", "all", "public-only", "private-only"}

\* Lines 141-143: the mode is none of the four: nil and an error.
RunInvalid ==
    /\ vPc = "run"
    /\ ~ValidRunMode
    /\ vOut' = [findings |-> <<>>, err |-> "invalid repository visibility setting"]
    /\ vPc' = "done"
    /\ UNCHANGED <<vCfg, vOi, vRepos, vRi, recentlyPublic, allPublicRepos, vCalls,
                   vEvents, vOrgLog>>
    /\ UNCHANGED otherThanVisibility

OrgRecord(failed, found) == [org |-> orgName, failed |-> failed, found |-> found]

\* Lines 122-126 / 133-137 with the organization's error returned by Run.
CheckOrganizationFailsAborting ==
    /\ vPc = "run"
    /\ ValidRunMode
    /\ vOi < Len(vCfg.Organizations)
    /\ vCalls' = Append(vCalls, OrgListCall)
    /\ vOut' = [findings |-> <<>>, err |-> "failed to list organization repositories"]
    /\ vPc' = "done"
    /\ UNCHANGED <<vCfg, vOi, vRepos, vRi, recentlyPublic, allPublicRepos, vEvents,
                   vOrgLog>>
    /\ UNCHANGED otherThanVisibility

\* Lines 121-126 / 132-137 with 45-48 / 207-210: the listing of the next
\* organization fails; the error is logged and the loop continues.
CheckOrganizationFails ==
    /\ vPc = "run"
    /\ ValidRunMode
    /\ vOi < Len(vCfg.Organizations)
    /\ vCalls' = Append(vCalls, OrgListCall)
    /\ vOrgLog' = Append(vOrgLog, OrgRecord(TRUE, <<>>))
    /\ vOi' = vOi + 1
    /\ UNCHANGED <<vCfg, vPc, vRepos, vRi, recentlyPublic, allPublicRepos, vOut,
                   vEvents>>
    /\ UNCHANGED otherThanVisibility

\* Lines 45-52 / 207-214: the listing of the next organization returns.
CheckOrganizationLists ==
    /\ vPc = "run"
    /\ ValidRunMode
    /\ vOi < Len(vCfg.Organizations)
    /\ vCalls' = Append(vCalls, OrgListCall)
    /\ IsListing(vRepos', visibilityFilter)
    /\ vRi' = 1
    /\ recentlyPublic' = <<>>
    /\ vPc' = "repo"
    /\ UNCHANGED <<vCfg, vOi, allPublicRepos, vOut, vEvents, vOrgLog>>
    /\ UNCHANGED otherThanVisibility

\* Lines 45-52 / 207-214 with a client that returns repositories whatever
\* the filter asked for (the interface GitHubClientInterface leaves it open;
\* the test double answers every listing with the same repositories).
CheckOrganizationListsUnfiltered ==
    /\ vPc = "run"
    /\ ValidRunMode
    /\ vOi < Len(vCfg.Organizations)
    /\ vCalls' = Append(vCalls, OrgListCall)
    /\ IsListing(vRepos', "all")
    /\ vRi' = 1
    /\ recentlyPublic' = <<>>
    /\ vPc' = "repo"
    /\ UNCHANGED <<vCfg, vOi, allPublicRepos, vOut, vEvents, vOrgLog>>
    /\ UNCHANGED otherThanVisibility

\* Lines 218-228 without the test of lines 222-225.
PassedOverButPublic(r) ==
    /\ vCfg.RepoVisibility # "specific"
    /\ \/ vCfg.RepoVisibility = "public-only" /\ r.private
       \/ r.private

\* Lines 218-228: CheckOrganizationWithVisibility passes over a repository
\* that does not match the mode, and over a private one.
PassedOver(r) ==
    /\ vCfg.RepoVisibility # "specific"
    /\ \/ vCfg.RepoVisibility = "public-only" /\ r.private
       \/ vCfg.RepoVisibility = "private-only" /\ ~r.private
       \/ r.private

AtRepo ==
    /\ vPc = "repo"
    /\ vRi \in DOMAIN vRepos

RepoPassedOver ==
    /\ AtRepo
    /\ PassedOver(repo)
    /\ vRi' = vRi + 1
    /\ UNCHANGED <<vCfg, vPc, vOi, vRepos, recentlyPublic, allPublicRepos, vOut,
                   vCalls, vEvents, vOrgLog>>
    /\ UNCHANGED otherThanVisibility

\* Lines 61-63 with the events fetched all the same.
RepoRecentFetchingEvents ==
    /\ AtRepo
    /\ ~PassedOver(repo)
    /\ isRecent(repo)
    /\ vCalls' = Append(vCalls, EventsCall)
    /\ recentlyPublic' = Append(recentlyPublic, FindingId)
    /\ vRi' = vRi + 1
    /\ UNCHANGED <<vCfg, vPc, vOi, vRepos, allPublicRepos, vOut, vEvents, vOrgLog>>
    /\ UNCHANGED otherThanVisibility

\* Lines 56-63 / 230-237: created inside the window (or without creation
\* time): a finding.
RepoRecent ==
    /\ AtRepo
    /\ ~PassedOver(repo)
    /\ isRecent(repo)
    /\ recentlyPublic' = Append(recentlyPublic, FindingId)
    /\ vRi' = vRi + 1
    /\ UNCHANGED <<vCfg, vPc, vOi, vRepos, allPublicRepos, vOut, vCalls, vEvents,
                   vOrgLog>>
    /\ UNCHANGED otherThanVisibility

\* Lines 66-70 with 84-87: the events cannot be fetched: logged, continue.
RepoEventsFail ==
    /\ AtRepo
    /\ ~PassedOver(repo)
    /\ ~isRecent(repo)
    /\ vCalls' = Append(vCalls, EventsCall)
    /\ vEvents' = EventsAnswer(<<>>, "API error")
    /\ vRi' = vRi + 1
    /\ UNCHANGED <<vCfg, vPc, vOi, vRepos, recentlyPublic, allPublicRepos, vOut,
                   vOrgLog>>
    /\ UNCHANGED otherThanVisibility

\* Lines 66-74 with 84-110: the events are fetched and scanned.
RepoEvents ==
    /\ AtRepo
    /\ ~PassedOver(repo)
    /\ ~isRecent(repo)
    /\ vCalls' = Append(vCalls, EventsCall)
    /\ \E answer \in EventsAnswers :
          /\ answer.err = "nil"
          /\ vEvents' = answer
          /\ LET madePublic == wasRecentlyMadePublic(answer.events)
             IN  recentlyPublic' = IF madePublic
                                   THEN Append(recentlyPublic, FindingId)
                                   ELSE recentlyPublic
    /\ vRi' = vRi + 1
    /\ UNCHANGED <<vCfg, vPc, vOi, vRepos, allPublicRepos, vOut, vOrgLog>>
    /\ UNCHANGED otherThanVisibility

\* Lines 78 and 127 / 253 and 138: the organization's findings are returned
\* and appended to those of the run; the locals of the check are gone.
CheckOrganizationReturns ==
    /\ vPc = "repo"
    /\ vRi > Len(vRepos)
    /\ allPublicRepos' = allPublicRepos \o recentlyPublic
    /\ vOrgLog' = Append(vOrgLog, OrgRecord(FALSE, recentlyPublic))
    /\ vOi' = vOi + 1
    /\ vPc' = "run"
    /\ vRepos' = <<>>
    /\ vRi' = 0
    /\ recentlyPublic' = <<>>
    /\ vEvents' = NoEvents
    /\ UNCHANGED <<vCfg, vOut, vCalls>>
    /\ UNCHANGED otherThanVisibility

\* Line 145: every organization is done: the findings and nil.
RunReturns ==
    /\ vPc = "run"
    /\ ValidRunMode
    /\ vOi >= Len(vCfg.Organizations)
    /\ vOut' = [findings |-> allPublicRepos, err |-> "nil"]
    /\ vPc' = "done"
    /\ UNCHANGED <<vCfg, vOi, vRepos, vRi, recentlyPublic, allPublicRepos, vCalls,
                   vEvents, vOrgLog>>
    /\ UNCHANGED otherThanVisibility

(***************************************************************************)
(* Configuration validation and the run driver (Config.Validate, main).    *)
(***************************************************************************)
\* time_window_hours / check_window_hours: negative, zero, positive.
WindowHours == {-1, 0, 24}

\* The configurations LoadConfig may return, as far as Validate reads them.
IsConfig(c) ==
    \E token \in {"", "ghp"} :
    \E prEnabled \in BOOLEAN, prMode \in MonitorModes,
       prRepos \in ListsOf({<<"o", "/", "r">>}, 1), prWindow \in WindowHours :
    \E rvEnabled \in BOOLEAN, rvMode \in MonitorModes,
       rvOrgs \in ListsOf({"acme"}, 1), rvWindow \in WindowHours :
        c = [Token |-> token,
             PRChecker |-> [Enabled |-> prEnabled, RepoVisibility |-> prMode,
                            SpecificRepositories |-> prRepos,
                            TimeWindow |-> prWindow],
             RepoVisibility |-> [Enabled |-> rvEnabled, RepoVisibility |-> rvMode,
                                 Organizations |-> rvOrgs,
                                 CheckWindow |-> rvWindow]]

\* Lines 105-110 and 135-140: the map validVisibilities.
validVisibilities == {"all", "public-only", "private-only", "specific"}

\* Validate with the time window checked only for an enabled PR checker.
ValidateWindowWhenEnabled(c) ==
    IF c.Token = ""
    THEN "GitHub token is required"
    ELSE IF c.PRChecker.Enabled
            /\ c.PRChecker.RepoVisibility \notin validVisibilities
    THEN "invalid repository visibility"
    ELSE IF c.PRChecker.Enabled /\ c.PRChecker.RepoVisibility = "specific"
            /\ Len(c.PRChecker.SpecificRepositories) = 0
    THEN "at least one repository must be specified"
    ELSE IF c.PRChecker.Enabled /\ c.PRChecker.TimeWindow <= 0
    THEN "time window must be greater than 0"
    ELSE IF c.RepoVisibility.Enabled
            /\ c.RepoVisibility.RepoVisibility \notin validVisibilities
    THEN "invalid repository visibility for repo_visibility monitor"
    ELSE IF c.RepoVisibility.Enabled /\ Len(c.RepoVisibility.Organizations) = 0
    THEN "at least one organization must be specified"
    ELSE IF c.RepoVisibility.Enabled /\ c.RepoVisibility.CheckWindow <= 0
    THEN "check window for repo visibility must be greater than 0"
    ELSE "nil"

\* Config.Validate (lines 98-163): the first failing check gives the error.
Validate(c) ==
    IF c.Token = ""
    THEN "GitHub token is required"
    ELSE IF c.PRChecker.Enabled
            /\ c.PRChecker.RepoVisibility \notin validVisibilities
    THEN "invalid repository visibility"
    ELSE IF c.PRChecker.Enabled /\ c.PRChecker.RepoVisibility = "specific"
            /\ Len(c.PRChecker.SpecificRepositories) = 0
    THEN "at least one repository must be specified"
    ELSE IF c.PRChecker.TimeWindow <= 0
    THEN "time window must be greater than 0"
    ELSE IF c.RepoVisibility.Enabled
            /\ c.RepoVisibility.RepoVisibility \notin validVisibilities
    THEN "invalid repository visibility for repo_visibility monitor"
    ELSE IF c.RepoVisibility.Enabled
            /\ c.RepoVisibility.RepoVisibility = "specific"
            /\ Len(c.RepoVisibility.Organizations) = 0
    THEN "at least one organization must be specified when repo_visibility is 'specific'"
    ELSE IF c.RepoVisibility.Enabled /\ Len(c.RepoVisibility.Organizations) = 0
    THEN "at least one organization must be specified"
    ELSE IF c.RepoVisibility.Enabled /\ c.RepoVisibility.CheckWindow <= 0
    THEN "check window for repo visibility must be greater than 0"
    ELSE "nil"

\* main, lines 319-322: Validate returns an error: log.Fatalf ends the run.
MainValidateFails ==
    /\ dPc = "start"
    /\ Validate(dCfg) # "nil"
    /\ dErr' = Validate(dCfg)
    /\ dPc' = "exited"
    /\ UNCHANGED <<dCfg, dStarted, dApiCalls>>
    /\ UNCHANGED otherThanDriver

\* main, lines 319-327: the configuration is valid.
MainValidates ==
    /\ dPc = "start"
    /\ Validate(dCfg) = "nil"
    /\ dErr' = "nil"
    /\ dPc' = "pr"
    /\ UNCHANGED <<dCfg, dStarted, dApiCalls>>
    /\ UNCHANGED otherThanDriver

\* A monitor runs: it may issue API calls.
RunMonitor(name) ==
    /\ dStarted' = Append(dStarted, name)
    /\ \E n \in {0, 1} : dApiCalls' = dApiCalls + n

\* main, lines 331-336: the PR checker is enabled and run.
MainRunPRChecker ==
    /\ dPc = "pr"
    /\ dCfg.PRChecker.Enabled
    /\ RunMonitor("pr_checker")
    /\ dPc' = "visibility"
    /\ UNCHANGED <<dCfg, dErr>>
    /\ UNCHANGED otherThanDriver

\* main, lines 350-352: the PR checker is disabled.
MainSkipPRChecker ==
    /\ dPc = "pr"
    /\ ~dCfg.PRChecker.Enabled
    /\ dPc' = "visibility"
    /\ UNCHANGED <<dCfg, dErr, dStarted, dApiCalls>>
    /\ UNCHANGED otherThanDriver

\* main, lines 356-361: the visibility monitor is enabled and run.
MainRunRepoVisibility ==
    /\ dPc = "visibility"
    /\ dCfg.RepoVisibility.Enabled
    /\ RunMonitor("repo_visibility")
    /\ dPc' = "finished"
    /\ UNCHANGED <<dCfg, dErr>>
    /\ UNCHANGED otherThanDriver

\* main, line 356: the visibility monitor is disabled.
MainSkipRepoVisibility ==
    /\ dPc = "visibility"
    /\ ~dCfg.RepoVisibility.Enabled
    /\ dPc' = "finished"
    /\ UNCHANGED <<dCfg, dErr, dStarted, dApiCalls>>
    /\ UNCHANGED otherThanDriver

(***************************************************************************)
(* The run driver's pass over the PR checker's results (runPRChecker).     *)
(***************************************************************************)
MaxResults == 3

\* The results Monitor may return for the i-th repository: an error, no
\* unapproved PR, one unapproved PR.
ResultsFor(i) ==
    {[Repository |-> <<"r", i>>, UnapprovedPRs |-> <<>>, Error |-> "API error"],
     [Repository |-> <<"r", i>>, UnapprovedPRs |-> <<>>, Error |-> NoError],
     [Repository |-> <<"r", i>>, UnapprovedPRs |-> <<[Number |-> 1]>>,
      Error |-> NoError]}

IsResultList(rs) ==
    \E k \in 0..MaxResults :
        /\ rs \in [1..k -> UNION {ResultsFor(i) : i \in 1..k}]
        /\ \A i \in 1..k : rs[i] \in ResultsFor(i)

\* The result the range loop of line 50 is at.
rResult == rResults[rI + 1]

\* Lines 51-54: the result carries an error: monitorFailed, break.
RangeResultError ==
    /\ rPc = "range"
    /\ rI < Len(rResults)
    /\ rResult.Error # NoError
    /\ monitorFailed' = TRUE
    /\ rPc' = "done"
    /\ UNCHANGED <<rResults, rI, problematicResults>>
    /\ UNCHANGED otherThanReport

\* Lines 56-58: no error and unapproved PRs: the result is kept.
RangeResultProblematic ==
    /\ rPc = "range"
    /\ rI < Len(rResults)
    /\ rResult.Error = NoError
    /\ Len(rResult.UnapprovedPRs) > 0
    /\ problematicResults' = Append(problematicResults, rResult)
    /\ rI' = rI + 1
    /\ UNCHANGED <<rResults, rPc, monitorFailed>>
    /\ UNCHANGED otherThanReport

\* Lines 50-59: no error and no unapproved PR.
RangeResultClean ==
    /\ rPc = "range"
    /\ rI < Len(rResults)
    /\ rResult.Error = NoError
    /\ Len(rResult.UnapprovedPRs) = 0
    /\ rI' = rI + 1
    /\ UNCHANGED <<rResults, rPc, problematicResults, monitorFailed>>
    /\ UNCHANGED otherThanReport

\* Lines 62-69: the loop is through: return problematicResults, monitorFailed.
RunPRCheckerReturns ==
    /\ rPc = "range"
    /\ rI >= Len(rResults)
    /\ rPc' = "done"
    /\ UNCHANGED <<rResults, rI, problematicResults, monitorFailed>>
    /\ UNCHANGED otherThanReport

(***************************************************************************)
(* The pure functions applied to one input.                                *)
(***************************************************************************)
Parse ==
    /\ ~pDone
    /\ pOut' = ParseRepository(pInput)
    /\ pDone' = TRUE
    /\ UNCHANGED pInput
    /\ UNCHANGED otherThanParse

\* isPRApproved once the reviews are fetched; the map is visited in any order.
Approve ==
    /\ ~aDone
    /\ \E order \in MapOrders(aReviews) :
          aVerdict' = isPRApproved(aReviews, order)
    /\ aDone' = TRUE
    /\ UNCHANGED aReviews
    /\ UNCHANGED otherThanApproval

\* The review lists the API returns: chronological, as GitHub lists reviews.
NonDecreasing(k) ==
    {t \in [1..k -> 1..MaxTime] : \A i \in 1..(k - 1) : t[i] <= t[i + 1]}

IsReviewList(rs) ==
    \E k \in 0..MaxReviews :
        \E w \in [1..k -> Reviewers \X ReviewStates] : \E t \in NonDecreasing(k) :
            rs = [i \in 1..k |-> Review(w[i][1], w[i][2], t[i])]

(***************************************************************************)
(* Initial states and specifications.                                      *)
(***************************************************************************)
IdleParse ==
    /\ pInput = <<>>
    /\ pOut = [owner |-> <<>>, repo |-> <<>>, ok |-> FALSE]
    /\ pDone = FALSE

IdleApproval ==
    /\ aReviews = <<>>
    /\ aVerdict = FALSE
    /\ aDone = FALSE

ScanLocalsInit ==
    /\ responses = [c \in {} |-> FALSE]
    /\ pc = "start"
    /\ page = 0
    /\ prs = <<>>
    /\ respNextPage = 0
    /\ idx = 0
    /\ stopFetching = FALSE
    /\ consecutivePRsOutsideWindow = 0
    /\ skippedPRs = 0
    /\ totalPRs = 0
    /\ mergedPRsInWindow = 0
    /\ unapprovedPRs = <<>>
    /\ result = [Repository |-> <<>>, UnapprovedPRs |-> <<>>, Error |-> NoError]
    /\ calls = <<>>
    /\ examined = <<>>
    /\ run = 1
    /\ prev = [result |-> [Repository |-> <<>>, UnapprovedPRs |-> <<>>,
                           Error |-> NoError],
               calls |-> <<>>]

IdleScan ==
    /\ repository = <<>>
    /\ server = <<>>
    /\ ScanLocalsInit

IdleRateLimit ==
    /\ rlPc = "idle"
    /\ rlOp = "nil"
    /\ rlErr = "nil"
    /\ rlWaitOk = FALSE
    /\ rlStatus = NoStatus
    /\ rlReturned = "nil"
    /\ rlInvocations = 0
    /\ tokens = 0
    /\ requests = 0
    /\ warnings = 0
    /\ executions = 0

IdlePaged ==
    /\ hHelper = "ListPullRequestReviews"
    /\ hOrg = ""
    /\ hVisibility = "all"
    /\ hServer = <<>>
    /\ hFail = 0
    /\ hPc = "idle"
    /\ hPage = 0
    /\ hAll = <<>>
    /\ hCalls = <<>>
    /\ hOut = [items |-> <<>>, err |-> "nil"]

IdleMonitor ==
    /\ cfg = [Enabled |-> FALSE, RepoVisibility |-> "specific",
              Organization |-> "", SpecificRepositories |-> <<>>,
              ExcludedRepositories |-> <<>>]
    /\ mPc = "idle"
    /\ repositories = <<>>
    /\ mi = 0
    /\ results = <<>>
    /\ mListCalls = <<>>
    /\ mListing = NoListing
    /\ mScanLog = <<>>

VisibilityLocalsInit ==
    /\ vOi = 0
    /\ vRepos = <<>>
    /\ vRi = 0
    /\ recentlyPublic = <<>>
    /\ allPublicRepos = <<>>
    /\ vOut = [findings |-> <<>>, err |-> "nil"]
    /\ vCalls = <<>>
    /\ vEvents = NoEvents
    /\ vOrgLog = <<>>

IdleVisibility ==
    /\ vCfg = [RepoVisibility |-> "specific", Organizations |-> <<>>]
    /\ vPc = "idle"
    /\ VisibilityLocalsInit

IdleDriver ==
    /\ dCfg = [Token |-> "",
               PRChecker |-> [Enabled |-> FALSE, RepoVisibility |-> "specific",
                              SpecificRepositories |-> <<>>, TimeWindow |-> 24],
               RepoVisibility |-> [Enabled |-> FALSE, RepoVisibility |-> "specific",
                                   Organizations |-> <<>>, CheckWindow |-> 24]]
    /\ dPc = "idle"
    /\ dErr = "nil"
    /\ dStarted = <<>>
    /\ dApiCalls = 0

IdleReport ==
    /\ rResults = <<>>
    /\ rPc = "idle"
    /\ rI = 0
    /\ problematicResults = <<>>
    /\ monitorFailed = FALSE

\* The components the later specifications add, idle.
IdleRest == IdlePaged /\ IdleMonitor /\ IdleVisibility /\ IdleDriver /\ IdleReport

\* One scan of one repository.
Init ==
    /\ repository \in RepositoryIds
    /\ IsServer(server, MaxPRs)
    /\ ScanLocalsInit
    /\ IdleParse /\ IdleApproval /\ IdleRateLimit /\ IdleRest

Next ==
    \/ Start
    \/ LoopBreak
    \/ GetPullRequestsFails
    \/ GetPullRequestsReturns
    \/ ExamineUpdatedBeforeCutoff
    \/ ExamineUnmerged
    \/ ExamineMergedBeforeCutoff
    \/ ExamineInWindowReviewsFail
    \/ ExamineInWindow
    \/ EndPageBreak
    \/ EndPageNext

Spec == Init /\ [][Next]_vars

\* One scan of one repository with long pages.
InitLongPages ==
    /\ repository = <<"o", "/", "r">>
    /\ IsLongServer(server)
    /\ ScanLocalsInit
    /\ IdleParse /\ IdleApproval /\ IdleRateLimit /\ IdleRest

NextLongPages ==
    \/ Start
    \/ LoopBreak
    \/ GetPullRequestsFails
    \/ GetPullRequestsReturns
    \/ ExamineUpdatedBeforeCutoff
    \/ ExamineUnmerged
    \/ ExamineMergedBeforeCutoff
    \/ ExamineInWindowReviewsFail
    \/ ExamineInWindow
    \/ EndPageBreak
    \/ EndPageNext

SpecLongPages == InitLongPages /\ [][NextLongPages]_vars

\* One scan of one repository with up to MaxPages short pages.
InitShortPages ==
    /\ repository = <<"o", "/", "r">>
    /\ IsShortServer(server)
    /\ ScanLocalsInit
    /\ IdleParse /\ IdleApproval /\ IdleRateLimit /\ IdleRest

NextShortPages ==
    \/ Start
    \/ LoopBreak
    \/ GetPullRequestsFails
    \/ GetPullRequestsReturns
    \/ ExamineUpdatedBeforeCutoff
    \/ ExamineUnmerged
    \/ ExamineMergedBeforeCutoff
    \/ ExamineInWindowReviewsFail
    \/ ExamineInWindow
    \/ EndPageBreak
    \/ EndPageNext

SpecShortPages == InitShortPages /\ [][NextShortPages]_vars

\* Two scans of the same repository against the same API.
InitRerun == Init

NextRerun ==
    \/ Start
    \/ LoopBreak
    \/ GetPullRequestsFails
    \/ GetPullRequestsReturns
    \/ ExamineUpdatedBeforeCutoff
    \/ ExamineUnmerged
    \/ ExamineMergedBeforeCutoff
    \/ ExamineInWindowReviewsFail
    \/ ExamineInWindow
    \/ EndPageBreak
    \/ EndPageNext
    \/ Rerun

SpecRerun == InitRerun /\ [][NextRerun]_vars

\* ParseRepository on every string of the bounded alphabet.
InitParse ==
    /\ \E k \in 0..MaxStrLen : pInput \in [1..k -> Chars]
    /\ pOut = [owner |-> <<>>, repo |-> <<>>, ok |-> FALSE]
    /\ pDone = FALSE
    /\ IdleApproval /\ IdleScan /\ IdleRateLimit /\ IdleRest

NextParse == Parse

SpecParse == InitParse /\ [][NextParse]_vars

\* isPRApproved on every bounded chronological review list.
InitApproval ==
    /\ IsReviewList(aReviews)
    /\ aVerdict = FALSE
    /\ aDone = FALSE
    /\ IdleParse /\ IdleScan /\ IdleRateLimit /\ IdleRest

NextApproval == Approve

SpecApproval == InitApproval /\ [][NextApproval]_vars

\* A client executing operations through ExecuteWithRateLimit.
InitRateLimit ==
    /\ IdleRateLimit
    /\ IdleParse /\ IdleApproval /\ IdleScan /\ IdleRest

NextRateLimit ==
    \/ Execute
    \/ WaitFails
    \/ WaitSucceeds
    \/ InvokeOperation
    \/ QueryRateLimits
    \/ Return

SpecRateLimit == InitRateLimit /\ [][NextRateLimit]_vars

\* One call of one list helper against every bounded paged list, any one
\* request failing or none.
PagedCall ==
    /\ hHelper \in Helpers
    /\ hOrg \in (IF hHelper = "ListOrganizationRepositories"
                 THEN {"", "acme"} ELSE {""})
    /\ hVisibility \in (IF hHelper \in RepositoryHelpers
                        THEN Visibilities ELSE {"all"})
    /\ IsPagedList(hServer, MaxItems)
    /\ hFail \in 0..MaxItems
    /\ hPc = "start"
    /\ hPage = 0
    /\ hAll = <<>>
    /\ hCalls = <<>>
    /\ hOut = [items |-> <<>>, err |-> "nil"]

InitPaged ==
    /\ PagedCall
    /\ IdleParse /\ IdleApproval /\ IdleScan /\ IdleRateLimit /\ IdleMonitor
    /\ IdleVisibility /\ IdleDriver /\ IdleReport

NextPaged ==
    \/ ListPullRequestReviews
    \/ ListStart
    \/ ListFetchFails
    \/ ListFetchPage

SpecPaged == InitPaged /\ [][NextPaged]_vars

\* CheckRepository before MonitorWithService has called it.
ScanNotCalled ==
    /\ repository = <<>>
    /\ server = <<>>
    /\ responses = [c \in {} |-> FALSE]
    /\ pc = "done"
    /\ page = 0
    /\ prs = <<>>
    /\ respNextPage = 0
    /\ idx = 0
    /\ stopFetching = FALSE
    /\ consecutivePRsOutsideWindow = 0
    /\ skippedPRs = 0
    /\ totalPRs = 0
    /\ mergedPRsInWindow = 0
    /\ unapprovedPRs = <<>>
    /\ result = ErrorResult(<<>>, NoError)
    /\ calls = <<>>
    /\ examined = <<>>
    /\ run = 1
    /\ prev = [result |-> ErrorResult(<<>>, NoError), calls |-> <<>>]

\* MonitorWithService on every bounded configuration.
InitMonitor ==
    /\ IsPRCheckerConfig(cfg)
    /\ mPc = "start"
    /\ repositories = <<>>
    /\ mi = 0
    /\ results = <<>>
    /\ mListCalls = <<>>
    /\ mListing = NoListing
    /\ mScanLog = <<>>
    /\ ScanNotCalled
    /\ IdleParse /\ IdleApproval /\ IdleRateLimit /\ IdlePaged
    /\ IdleVisibility /\ IdleDriver /\ IdleReport

NextMonitor ==
    \/ MonitorDisabled
    \/ ResolveSpecific
    \/ ResolveListingFails
    \/ ResolveListing
    \/ ResolveInvalid
    \/ CallCheckRepository
    \/ Start
    \/ LoopBreak
    \/ GetPullRequestsFails
    \/ GetPullRequestsReturns
    \/ ExamineUpdatedBeforeCutoff
    \/ ExamineUnmerged
    \/ ExamineMergedBeforeCutoff
    \/ ExamineInWindowReviewsFail
    \/ ExamineInWindow
    \/ EndPageBreak
    \/ EndPageNext
    \/ AppendResult
    \/ MonitorReturn

SpecMonitor == InitMonitor /\ [][NextMonitor]_vars

\* Checker.Run on every bounded configuration.
RunCall ==
    /\ IsVisibilityConfig(vCfg)
    /\ vPc = "run"
    /\ VisibilityLocalsInit

InitVisibility ==
    /\ RunCall
    /\ IdleParse /\ IdleApproval /\ IdleScan /\ IdleRateLimit /\ IdlePaged
    /\ IdleMonitor /\ IdleDriver /\ IdleReport

NextVisibility ==
    \/ RunInvalid
    \/ CheckOrganizationFails
    \/ CheckOrganizationLists
    \/ RepoPassedOver
    \/ RepoRecent
    \/ RepoEventsFail
    \/ RepoEvents
    \/ CheckOrganizationReturns
    \/ RunReturns

SpecVisibility == InitVisibility /\ [][NextVisibility]_vars

\* Checker.Run with a client whose listings ignore the filter.
NextAnyClient ==
    \/ RunInvalid
    \/ CheckOrganizationFails
    \/ CheckOrganizationListsUnfiltered
    \/ RepoPassedOver
    \/ RepoRecent
    \/ RepoEventsFail
    \/ RepoEvents
    \/ CheckOrganizationReturns
    \/ RunReturns

SpecAnyClient == InitVisibility /\ [][NextAnyClient]_vars

\* main from Validate on, for every bounded configuration.
InitDriver ==
    /\ IsConfig(dCfg)
    /\ dPc = "start"
    /\ dErr = "nil"
    /\ dStarted = <<>>
    /\ dApiCalls = 0
    /\ IdleParse /\ IdleApproval /\ IdleScan /\ IdleRateLimit /\ IdlePaged
    /\ IdleMonitor /\ IdleVisibility /\ IdleReport

NextDriver ==
    \/ MainValidateFails
    \/ MainValidates
    \/ MainRunPRChecker
    \/ MainSkipPRChecker
    \/ MainRunRepoVisibility
    \/ MainSkipRepoVisibility

SpecDriver == InitDriver /\ [][NextDriver]_vars

\* runPRChecker from line 50 on, for every bounded list of results.
InitReport ==
    /\ IsResultList(rResults)
    /\ rPc = "range"
    /\ rI = 0
    /\ problematicResults = <<>>
    /\ monitorFailed = FALSE
    /\ IdleParse /\ IdleApproval /\ IdleScan /\ IdleRateLimit /\ IdlePaged
    /\ IdleMonitor /\ IdleVisibility /\ IdleDriver

NextReport ==
    \/ RangeResultError
    \/ RangeResultProblematic
    \/ RangeResultClean
    \/ RunPRCheckerReturns

SpecReport == InitReport /\ [][NextReport]_vars

\* One pass, whichever part of it runs: a scan of one repository, the PR
\* checker over its repositories, one list helper, the visibility checker
\* over its organizations.  The program is sequential and keeps running while
\* it has a step to take.
InitPass ==
    \/ Init
    \/ InitMonitor
    \/ /\ PagedCall
       /\ ScanNotCalled
       /\ IdleParse /\ IdleApproval /\ IdleRateLimit /\ IdleMonitor
       /\ IdleVisibility /\ IdleDriver /\ IdleReport
    \/ /\ RunCall
       /\ ScanNotCalled
       /\ IdleParse /\ IdleApproval /\ IdleRateLimit /\ IdlePaged
       /\ IdleMonitor /\ IdleDriver /\ IdleReport

NextPass ==
    \/ MonitorDisabled
    \/ ResolveSpecific
    \/ ResolveListingFails
    \/ ResolveListing
    \/ ResolveInvalid
    \/ CallCheckRepository
    \/ Start
    \/ LoopBreak
    \/ GetPullRequestsFails
    \/ GetPullRequestsReturns
    \/ ExamineUpdatedBeforeCutoff
    \/ ExamineUnmerged
    \/ ExamineMergedBeforeCutoff
    \/ ExamineInWindowReviewsFail
    \/ ExamineInWindow
    \/ EndPageBreak
    \/ EndPageNext
    \/ AppendResult
    \/ MonitorReturn
    \/ ListPullRequestReviews
    \/ ListStart
    \/ ListFetchFails
    \/ ListFetchPage
    \/ RunInvalid
    \/ CheckOrganizationFails
    \/ CheckOrganizationLists
    \/ RepoPassedOver
    \/ RepoRecent
    \/ RepoEventsFail
    \/ RepoEvents
    \/ CheckOrganizationReturns
    \/ RunReturns

SpecPass == InitPass /\ [][NextPass]_vars /\ WF_vars(NextPass)

(***************************************************************************)
(* Properties of ParseRepository.                                          *)
(***************************************************************************)
CountSlashes(s) == Cardinality({i \in DOMAIN s : s[i] = "/"})

NoSlash(s) == \A i \in DOMAIN s : s[i] # "/"

\* C9: ParseRepository returns ok exactly for the inputs holding exactly one
\* "/"; then owner and repo are the text before and after it, unchanged (empty
\* or holding blanks as it may be); otherwise owner and repo are empty.
C9_ParseExactlyOneSlash ==
    pDone =>
        /\ pOut.ok <=> CountSlashes(pInput) = 1
        /\ pOut.ok =>
              /\ pInput = pOut.owner \o <<"/">> \o pOut.repo
              /\ NoSlash(pOut.owner) /\ NoSlash(pOut.repo)
        /\ ~pOut.ok => pOut.owner = <<>> /\ pOut.repo = <<>>

\* "/ o" parses into the empty owner and the repo " o".
C9_Witness ==
    /\ pDone
    /\ pInput = <<"/", " ", "o">>
    /\ pOut = [owner |-> <<>>, repo |-> <<" ", "o">>, ok |-> TRUE]

(***************************************************************************)
(* Properties of isPRApproved.                                             *)
(***************************************************************************)
Dropped(review) ==
    review.state = "" \/ review.reviewer = "" \/ review.reviewer = "ghost"

\* The positions of the reviews that set a reviewer's tracked state.
Tracked(rs) ==
    {i \in DOMAIN rs :
        ~Dropped(rs[i]) /\ rs[i].state \in {"APPROVED", "CHANGES_REQUESTED"}}

TrackedOf(rs, who) == {i \in Tracked(rs) : rs[i].reviewer = who}

TrackedReviewers(rs) == {rs[i].reviewer : i \in Tracked(rs)}

\* A reviewer's latest tracked state: that of the last tracking review in the list.
LatestTracked(rs, who) ==
    rs[CHOOSE i \in TrackedOf(rs, who) : \A j \in TrackedOf(rs, who) : j <= i].state

VerdictRule(rs) ==
    /\ \E who \in TrackedReviewers(rs) : LatestTracked(rs, who) = "APPROVED"
    /\ ~\E who \in TrackedReviewers(rs) : LatestTracked(rs, who) = "CHANGES_REQUESTED"

\* C1: the verdict is 'approved' iff some reviewer's latest tracked state is
\* APPROVED and no reviewer's latest tracked state is CHANGES_REQUESTED, dropped
\* reviews and untracked states not counting.
C1_VerdictRule == aDone => (aVerdict = VerdictRule(aReviews))

\* A CHANGES_REQUESTED by B listed before an APPROVED by A vetoes it.
C1_Witness ==
    /\ aDone
    /\ aReviews = <<Review("B", "CHANGES_REQUESTED", 1), Review("A", "APPROVED", 2)>>
    /\ aVerdict = FALSE

\* The tracking reviews of a reviewer with the greatest submission time.
MostRecentOf(rs, who) ==
    {i \in TrackedOf(rs, who) :
        \A j \in TrackedOf(rs, who) : rs[j].submittedAt <= rs[i].submittedAt}

\* C2: only each reviewer's most recently submitted APPROVED/CHANGES_REQUESTED
\* review contributes: the verdict is the rule applied to one tracking review
\* per reviewer, each of the greatest submission time of that reviewer.
C2_LatestPerReviewerWins ==
    aDone =>
        \E pick \in [TrackedReviewers(aReviews) -> DOMAIN aReviews] :
            /\ \A who \in TrackedReviewers(aReviews) :
                  pick[who] \in MostRecentOf(aReviews, who)
            /\ aVerdict =
                  (/\ \E who \in TrackedReviewers(aReviews) :
                         aReviews[pick[who]].state = "APPROVED"
                   /\ ~\E who \in TrackedReviewers(aReviews) :
                         aReviews[pick[who]].state = "CHANGES_REQUESTED")

\* A requests changes, then approves later: approved.
C2_Witness ==
    /\ aDone
    /\ aReviews = <<Review("A", "CHANGES_REQUESTED", 1), Review("A", "APPROVED", 2)>>
    /\ aVerdict = TRUE

(***************************************************************************)
(* Properties of CheckRepository.                                          *)
(***************************************************************************)
AllPRs == UNION {Range(server[p]) : p \in DOMAIN server}

PRof(n) == CHOOSE p \in AllPRs : p.number = n

Found(list) == {f.Number : f \in Range(list)}

\* The server lists the PRs by update time, latest first.
SortedByUpdatedDesc ==
    \A p, q \in AllPRs : p.number < q.number => p.updatedAt >= q.updatedAt

\* Timestamps as the hosting API sets them: an update time is present and a
\* merge is not later than the last update.
TimesAsServed ==
    \A p \in AllPRs : ~IsZero(p.updatedAt) /\ p.mergedAt <= p.updatedAt

MergedInWindow(p) == ~IsZero(p.mergedAt) /\ p.mergedAt >= cutoffTime

ScanEndedWithoutError == pc = "done" /\ result.Error = NoError

\* C3: when the scan of a list sorted by update time returns without error,
\* every PR merged inside the window whose verdict is 'not approved' is among
\* the UnapprovedPRs returned.  (Stated for timestamps as the API sets them;
\* the code breaks it: the counter-based stops end the scan early.)
C3_EveryUnapprovedMergeReported ==
    (ScanEndedWithoutError /\ SortedByUpdatedDesc /\ TimesAsServed) =>
        \A p \in AllPRs :
            (MergedInWindow(p) /\ ~VerdictRule(p.reviews)) =>
                p.number \in Found(result.UnapprovedPRs)

ExaminedPRs == {PRof(examined[i]) : i \in DOMAIN examined}

ReviewsFetched(p) == ReviewCall(p.number) \in Range(calls)

\* The PRs examined so far that the code counts as skipped when the window
\* starts at cutoff (at) or just after it (after).
SkippedWhenNotBefore(at) ==
    {p \in ExaminedPRs :
        /\ ~UpdatedBeforeCutoff(p)
        /\ IsZero(p.mergedAt) \/ p.mergedAt < at}

\* C4 as claimed: a PR merged exactly at cutoff, like one merged one unit
\* before it, is counted as skipped, has no review fetch and is never reported.
C4_MergedAtCutoffExcluded ==
    /\ skippedPRs = Cardinality(SkippedWhenNotBefore(cutoffTime + 1))
    /\ \A p \in ExaminedPRs :
          (~UpdatedBeforeCutoff(p) /\ p.mergedAt \in {cutoffTime - 1, cutoffTime}) =>
              /\ ~ReviewsFetched(p)
              /\ p.number \notin Found(unapprovedPRs)
              /\ p.number \notin Found(result.UnapprovedPRs)

\* C4 amended: a PR merged exactly at cutoff is inside the window: it is not
\* counted as skipped, its reviews are fetched, and a scan that ends without
\* error reports it exactly when its verdict is 'not approved'.  A PR merged one
\* unit before cutoff is counted as skipped, has no review fetch and is never
\* reported.
C4_MergedAtCutoffIncluded ==
    /\ skippedPRs = Cardinality(SkippedWhenNotBefore(cutoffTime))
    /\ \A p \in ExaminedPRs :
          /\ (~UpdatedBeforeCutoff(p) /\ p.mergedAt = cutoffTime) =>
                /\ ReviewsFetched(p)
                /\ ScanEndedWithoutError =>
                      (p.number \in Found(result.UnapprovedPRs)
                          <=> ~VerdictRule(p.reviews))
          /\ (~UpdatedBeforeCutoff(p) /\ p.mergedAt = cutoffTime - 1) =>
                /\ ~ReviewsFetched(p)
                /\ p.number \notin Found(unapprovedPRs)
                /\ p.number \notin Found(result.UnapprovedPRs)

\* A scan that reported a PR merged exactly at cutoff and skipped one merged
\* one unit before.
C4_Witness ==
    /\ ScanEndedWithoutError
    /\ \E p, q \in ExaminedPRs :
          /\ ~UpdatedBeforeCutoff(p) /\ p.mergedAt = cutoffTime
          /\ p.number \in Found(result.UnapprovedPRs)
          /\ ~UpdatedBeforeCutoff(q) /\ q.mergedAt = cutoffTime - 1
    /\ skippedPRs = 1

\* The range loop has met a PR updated before the cutoff.
MetUpdatedBeforeCutoff == \E p \in ExaminedPRs : UpdatedBeforeCutoff(p)

\* C5: once a PR updated before the cutoff has been met, the only step left is
\* the return: no further PR is examined, no page and no reviews are fetched,
\* and the result carries the findings accumulated so far and no error.
C5_EarlyExitOnUpdateTime ==
    [][MetUpdatedBeforeCutoff =>
          /\ examined' = examined
          /\ calls' = calls
          /\ pc' = "done"
          /\ result' = [Repository |-> repository,
                        UnapprovedPRs |-> unapprovedPRs,
                        Error |-> NoError]]_vars

\* The scan stopped at such a PR with a finding made before it and a further
\* page left unfetched.
C5_Witness ==
    /\ pc = "done"
    /\ MetUpdatedBeforeCutoff
    /\ respNextPage # 0
    /\ Len(calls) = 2
    /\ result.UnapprovedPRs # <<>>
    /\ result.Error = NoError

\* C6: a second scan of the same repository against the same API returns the
\* same Result and issues the same API calls in the same order as the first,
\* whatever the orders in which the per-reviewer maps are visited.
C6_SecondScanIdentical ==
    (run = 2 /\ pc = "done") => (result = prev.result /\ calls = prev.calls)

\* Both scans done, a PR with an approval and a veto among the examined.
C6_Witness ==
    /\ run = 2
    /\ pc = "done"
    /\ \E p \in ExaminedPRs :
          /\ Cardinality(DOMAIN latestReviewByReviewer(p.reviews)) = 2
          /\ p.number \in Found(result.UnapprovedPRs)
    /\ Len(calls) >= 3

FailedCalls == {c \in DOMAIN responses : responses[c]}

\* C7: when a page fetch or a review fetch fails, the scan is over: the failed
\* call is the last one issued, and the result carries an error and an empty
\* UnapprovedPRs list.
C7_AbortOnAPIError ==
    FailedCalls # {} =>
        /\ pc = "done"
        /\ calls # <<>>
        /\ calls[Len(calls)] \in FailedCalls
        /\ \A i \in 1..(Len(calls) - 1) : calls[i] \notin FailedCalls
        /\ result.Error # NoError
        /\ result.UnapprovedPRs = <<>>

\* A review fetch failed after an unapproved PR had been found.
C7_Witness ==
    /\ pc = "done"
    /\ \E c \in FailedCalls : c.api = "ListPullRequestReviews"
    /\ unapprovedPRs # <<>>
    /\ result.UnapprovedPRs = <<>>
    /\ result.Error = "error checking PR approval"

\* C8: for an identifier that is not owner/name (not exactly one "/"), the scan
\* issues no API call and returns an error and no UnapprovedPRs.
C8_MalformedIdentifierFailsFast ==
    CountSlashes(repository) # 1 =>
        /\ calls = <<>>
        /\ pc \in {"start", "done"}
        /\ pc = "done" =>
              /\ result.Error = "invalid repository format"
              /\ result.UnapprovedPRs = <<>>
              /\ result.Repository = repository

\* "o/r/x" was refused although the server holds PRs.
C8_Witness ==
    /\ pc = "done"
    /\ repository = <<"o", "/", "r", "/", "x">>
    /\ server # <<>>
    /\ calls = <<>>
    /\ result.Error = "invalid repository format"

(***************************************************************************)
(* Properties of ExecuteWithRateLimit.                                     *)
(***************************************************************************)
\* C10: when the limiter wait succeeded, the operation is invoked exactly once
\* and the value returned is the operation's own result, whatever the status
\* query replied.
C10_OperationResultPassedThrough ==
    rlWaitOk =>
        /\ rlPc \in {"status", "return", "idle"} => rlInvocations = 1
        /\ rlPc = "idle" => rlReturned = rlOp

\* The operation succeeded, the status query failed, nil was returned.
C10_Witness ==
    /\ rlPc = "idle"
    /\ rlWaitOk
    /\ rlOp = "nil"
    /\ rlStatus.err = "rate limit query failed"
    /\ rlReturned = "nil"

\* C11: when the limiter wait fails, ExecuteWithRateLimit returns that failure,
\* the operation is not invoked and no rate-limit status query is made in that
\* execution.
C11_WaitFailureReturned ==
    (executions > 0 /\ ~rlWaitOk /\ rlPc = "idle") =>
        /\ rlReturned = WaitError
        /\ rlInvocations = 0
        /\ rlStatus = NoStatus

\* A first execution went through (one token, two requests); the wait of the
\* second failed: its error is returned and nothing more was sent.
C11_Witness ==
    /\ executions = 2
    /\ rlPc = "idle"
    /\ ~rlWaitOk
    /\ tokens = 1
    /\ requests = 2
    /\ rlOp = "nil"
    /\ rlReturned = WaitError

\* C12: every request sent to the hosting API, the rate-limit status query
\* included, is preceded by the acquisition of its own limiter token: at every
\* point the requests issued do not exceed the tokens acquired.
C12_EveryRequestHasToken == requests <= tokens

(***************************************************************************)
(* Properties of the list helpers.                                         *)
(***************************************************************************)
RECURSIVE Flatten(_)
Flatten(pages) ==
    IF pages = <<>> THEN <<>> ELSE Head(pages) \o Flatten(Tail(pages))

\* The page numbers of the list, the first page being asked for even when the
\* list is empty.
PagesOf(srv) == IF srv = <<>> THEN <<1>> ELSE [i \in 1..Len(srv) |-> i]

\* C13: a list helper that returns without error returns the concatenation,
\* in page order, of all the pages the API holds, having made exactly one
\* rate-limited call per page.
C13_HelpersReturnAllPages ==
    (hPc = "done" /\ hOut.err = "nil") =>
        /\ hOut.items = Flatten(hServer)
        /\ hCalls = PagesOf(hServer)

(***************************************************************************)
(* Properties of MonitorWithService.                                       *)
(***************************************************************************)
ListingModes == {"all", "public-only", "private-only"}

\* The repository set has been resolved and the scan loop entered.
MonitorResolved ==
    /\ cfg.Enabled
    /\ mPc \in {"loop", "scan", "done"}
    /\ \/ cfg.RepoVisibility = "specific"
       \/ cfg.RepoVisibility \in ListingModes /\ mListing.err = "nil"

NotExcluded(name) ==
    \A j \in DOMAIN cfg.ExcludedRepositories : cfg.ExcludedRepositories[j] # name

\* The arguments of the CheckRepository calls that have returned, in order.
Scanned == [i \in DOMAIN mScanLog |-> mScanLog[i].repo]

\* C14: in mode "specific" the list scanned is the configured list, verbatim
\* and in order, whatever the exclusions, and no listing call is made; in the
\* modes all, public-only and private-only one listing call is made (for the
\* organization when one is named, else for the authenticated user) and the
\* list scanned is the listing without the excluded full names, in listing
\* order; no excluded repository is scanned in these modes.
C14_RepositorySetResolution ==
    MonitorResolved =>
        /\ cfg.RepoVisibility = "specific" =>
              /\ repositories = cfg.SpecificRepositories
              /\ mListCalls = <<>>
        /\ cfg.RepoVisibility \in ListingModes =>
              /\ Len(mListCalls) = 1
              /\ mListCalls[1].visibility = cfg.RepoVisibility
              /\ cfg.Organization # "" =>
                    /\ mListCalls[1].api = "ListOrganizationRepositories"
                    /\ mListCalls[1].org = cfg.Organization
              /\ cfg.Organization = "" =>
                    mListCalls[1].api = "ListUserRepositories"
              /\ repositories = SelectSeq(mListing.repos, NotExcluded)
              /\ \A i \in DOMAIN Scanned : NotExcluded(Scanned[i])
              /\ mPc = "scan" => NotExcluded(repository)
        /\ Len(Scanned) <= Len(repositories)
        /\ Scanned = SubSeq(repositories, 1, Len(Scanned))
        /\ mPc = "scan" => repository = repositories[Len(Scanned) + 1]
        /\ mPc = "done" => Scanned = repositories

\* Mode "specific" with "o/r" both configured and excluded: "o/r" and the
\* malformed "or" were scanned, in that order, without a listing call.
C14_Witness ==
    /\ mPc = "done"
    /\ cfg.Enabled
    /\ cfg.RepoVisibility = "specific"
    /\ cfg.SpecificRepositories = <<<<"o", "/", "r">>, <<"o", "r">>>>
    /\ cfg.ExcludedRepositories = <<<<"o", "/", "r">>>>
    /\ Scanned = cfg.SpecificRepositories
    /\ mListCalls = <<>>

\* C15: with the PR checker enabled, when the listing call returned an error
\* or the mode is none of the four, MonitorWithService returns exactly one
\* result, carrying an error and no unapproved PR, and CheckRepository is
\* never called: no page fetch, no review fetch.
C15_ResolutionFailureShortCircuits ==
    (/\ cfg.Enabled
     /\ mPc \notin {"idle", "start"}
     /\ \/ mListing.err \notin {"nil", "none"}
        \/ cfg.RepoVisibility \notin Visibilities) =>
        /\ mPc = "done"
        /\ Len(results) = 1
        /\ results[1].Error # NoError
        /\ results[1].UnapprovedPRs = <<>>
        /\ mScanLog = <<>>
        /\ calls = <<>>
        /\ repositories = <<>>
        /\ mi = 0

\* The listing of organization "acme" failed.
C15_Witness ==
    /\ mPc = "done"
    /\ cfg.Enabled
    /\ cfg.RepoVisibility = "all"
    /\ cfg.Organization = "acme"
    /\ cfg.ExcludedRepositories # <<>>
    /\ mListing.err = "API error"
    /\ mListCalls = <<[api |-> "ListOrganizationRepositories", org |-> "acme",
                       visibility |-> "all"]>>
    /\ results = <<ErrorResult(<<"org:", "acme">>,
                               "failed to fetch organization repositories")>>

\* One result per repository taken so far, in list order and labelled with the
\* identifier; each of these repositories was scanned (a well-formed one had
\* its first page asked for, a malformed one got the parse error), whatever
\* the results before it carry.
OneResultPerRepository ==
    MonitorResolved =>
        /\ Len(results) = Len(mScanLog)
        /\ Len(results) <= Len(repositories)
        /\ \A i \in DOMAIN results :
              /\ results[i].Repository = repositories[i]
              /\ mScanLog[i].repo = repositories[i]
              /\ IF ParseRepository(repositories[i]).ok
                 THEN /\ mScanLog[i].calls # <<>>
                      /\ mScanLog[i].calls[1] = PageCall(1)
                 ELSE /\ mScanLog[i].calls = <<>>
                      /\ results[i].Error = "invalid repository format"
        /\ mPc = "done" => Len(results) = Len(repositories)

\* An API call is issued only by the scan of the repository the loop is at,
\* after the results of all repositories before it were appended; the loop
\* never goes back.
CallsInRepositoryOrder ==
    /\ mi' >= mi
    /\ Len(calls') > Len(calls) =>
          /\ mPc = "scan"
          /\ repository = repositories[mi]
          /\ Len(results) = mi - 1
          /\ UNCHANGED <<mi, results, repositories, repository>>

\* C16: once the set is resolved there is exactly one result per repository,
\* in list order, labelled with its identifier; an error in one scan does not
\* keep the later repositories from being scanned; and the API calls of
\* repository i all precede those of repository i+1.
C16_OneResultPerRepositoryInOrder ==
    [](OneResultPerRepository) /\ [][CallsInRepositoryOrder]_vars

\* Two repositories: the page fetch of the first failed, the second was
\* scanned all the same and its unapproved PR reported.
C16_Witness ==
    /\ mPc = "done"
    /\ MonitorResolved
    /\ Len(results) = 2
    /\ results[1].Error = "error getting pull requests"
    /\ results[2].Error = NoError
    /\ results[2].UnapprovedPRs # <<>>
    /\ Len(mScanLog[2].calls) = 2

(***************************************************************************)
(* Properties of the visibility scanner.                                   *)
(***************************************************************************)
\* The range loop is at a listed public repository.
PublicRepoAtHand ==
    /\ vPc = "repo"
    /\ vRi \in DOMAIN vRepos
    /\ ~vRepos[vRi].private

CreatedBeforeCutoff(r) == r.createdAt # 0 /\ r.createdAt < visCutoffTime

IdOfRepoAtHand == <<vCfg.Organizations[vOi + 1], "/", vRepos[vRi].name>>

\* C17: a listed public repository whose creation time is not before the
\* cutoff, or is absent, is added to the findings as "org/name" in the step
\* that examines it, and no call (so no event-history fetch) is made for it.
C17_RecentCreationIsFinding ==
    [][(PublicRepoAtHand /\ ~CreatedBeforeCutoff(vRepos[vRi])) =>
           /\ recentlyPublic' = Append(recentlyPublic, IdOfRepoAtHand)
           /\ vCalls' = vCalls
           /\ vEvents' = vEvents]_vars

\* Mode "all": the first repository listed for "acme" is public and was
\* created exactly at the cutoff; it is a finding and only the listing call
\* was made.
C17_Witness ==
    /\ vPc = "repo"
    /\ vCfg.RepoVisibility = "all"
    /\ vOi = 0
    /\ vRi = 2
    /\ vRepos[1] = Repository(RepoName(1), FALSE, visCutoffTime)
    /\ recentlyPublic = <<<<"acme", "/", RepoName(1)>>>>
    /\ Len(vCalls) = 1
    /\ vCalls[1].api = "ListOrganizationRepositories"

OlderThanCutoff(event) == event.createdAt # 0 /\ event.createdAt < visCutoffTime

\* A PublicEvent is reached before the first event older than the cutoff.
PublicEventBeforeOlder(events) ==
    \E i \in DOMAIN events :
        /\ events[i].type = "PublicEvent"
        /\ \A j \in 1..i : ~OlderThanCutoff(events[j])

\* C18: for a listed public repository created before the cutoff the events
\* are fetched, and when they are returned the repository is added to the
\* findings if and only if a PublicEvent comes before the first event older
\* than the cutoff; a fetch error adds nothing.
C18_EventScan ==
    [][(PublicRepoAtHand /\ CreatedBeforeCutoff(vRepos[vRi])) =>
           /\ vCalls' = Append(vCalls,
                               [api |-> "ListRepositoryEvents",
                                owner |-> vCfg.Organizations[vOi + 1],
                                arg |-> vRepos[vRi].name])
           /\ vEvents'.err = "nil" =>
                 recentlyPublic' =
                     IF PublicEventBeforeOlder(vEvents'.events)
                     THEN Append(recentlyPublic, IdOfRepoAtHand)
                     ELSE recentlyPublic
           /\ vEvents'.err # "nil" => recentlyPublic' = recentlyPublic]_vars

\* An old public repository whose events are a push older than the cutoff
\* followed by a PublicEvent at the cutoff: no finding.
C18_Witness ==
    /\ vPc = "repo"
    /\ vRi = 2
    /\ vRepos[1] = Repository(RepoName(1), FALSE, visCutoffTime - 1)
    /\ vEvents = EventsAnswer(<<Event("PushEvent", visCutoffTime - 1),
                                Event("PublicEvent", visCutoffTime)>>, "nil")
    /\ recentlyPublic = <<>>
    /\ Len(vCalls) = 2

IsOrgListCall(call) == call.api = "ListOrganizationRepositories"

\* C19: with one of the four modes Run returns no error; every configured
\* organization is listed, in order; an organization whose listing failed
\* contributes no finding and the findings returned are those of the
\* organizations concatenated in configured order.  With any other mode Run
\* returns an error, no finding, and makes no call.
C19_OrganizationErrorIsolation ==
    vPc = "done" =>
        IF vCfg.RepoVisibility \in Visibilities
        THEN /\ vOut.err = "nil"
             /\ Len(vOrgLog) = Len(vCfg.Organizations)
             /\ \A i \in DOMAIN vOrgLog :
                   /\ vOrgLog[i].org = vCfg.Organizations[i]
                   /\ vOrgLog[i].failed => vOrgLog[i].found = <<>>
                   /\ \A j \in DOMAIN vOrgLog[i].found :
                         vOrgLog[i].found[j][1] = vCfg.Organizations[i]
             /\ vOut.findings = Flatten([i \in DOMAIN vOrgLog |-> vOrgLog[i].found])
             /\ LET listed == SelectSeq(vCalls, IsOrgListCall)
                IN  [i \in DOMAIN listed |-> listed[i].owner] = vCfg.Organizations
        ELSE /\ vOut.err # "nil"
             /\ vOut.findings = <<>>
             /\ vCalls = <<>>

\* The listing of "acme" failed; "beta" was checked all the same and its
\* finding returned without error.
C19_Witness ==
    /\ vPc = "done"
    /\ vCfg.Organizations = <<"acme", "beta">>
    /\ Len(vOrgLog) = 2
    /\ vOrgLog[1].failed
    /\ ~vOrgLog[2].failed
    /\ vOut = [findings |-> <<<<"beta", "/", RepoName(1)>>>>, err |-> "nil"]

(***************************************************************************)
(* Properties of Config.Validate and the run driver.                       *)
(***************************************************************************)
FourModes == {"specific", "all", "public-only", "private-only"}

\* The configuration errors the validation is to detect.
ConfigurationError(c) ==
    \/ c.Token = ""
    \/ /\ c.PRChecker.Enabled
       /\ \/ c.PRChecker.RepoVisibility \notin FourModes
          \/ /\ c.PRChecker.RepoVisibility = "specific"
             /\ c.PRChecker.SpecificRepositories = <<>>
    \/ ~(c.PRChecker.TimeWindow > 0)
    \/ /\ c.RepoVisibility.Enabled
       /\ \/ c.RepoVisibility.RepoVisibility \notin FourModes
          \/ c.RepoVisibility.Organizations = <<>>
          \/ ~(c.RepoVisibility.CheckWindow > 0)

\* C20: Validate returns an error exactly for the configurations with an
\* empty token, an enabled PR checker with a mode outside the four or with
\* mode "specific" and no repository, a PR time window not greater than 0, or
\* an enabled visibility monitor with a mode outside the four, no
\* organization or a check window not greater than 0; after an error the
\* driver exits having started no monitor and issued no API call.
C20_ConfigurationErrorsBeforeAnyCall ==
    /\ dPc \notin {"idle", "start"} =>
          (dErr # "nil" <=> ConfigurationError(dCfg))
    /\ (dPc # "idle" /\ ConfigurationError(dCfg)) =>
          /\ dPc \in {"start", "exited"}
          /\ dStarted = <<>>
          /\ dApiCalls = 0

\* Both monitors disabled, a token, and a PR time window of 0: rejected.
C20_Witness ==
    /\ dPc = "exited"
    /\ dCfg.Token # ""
    /\ ~dCfg.PRChecker.Enabled
    /\ ~dCfg.RepoVisibility.Enabled
    /\ dCfg.PRChecker.TimeWindow = 0
    /\ dErr = "time window must be greater than 0"
    /\ dStarted = <<>>
    /\ dApiCalls = 0

(***************************************************************************)
(* Termination of one pass.                                                *)
(***************************************************************************)
NoDuplicates(seq) == \A i, j \in DOMAIN seq : seq[i] = seq[j] => i = j

\* A scan asks for no page (and no PR's reviews) twice; a list helper asks
\* for no page twice.
NoPageTwice == NoDuplicates(calls) /\ NoDuplicates(hCalls)

\* A failed call is the last call of its scan or helper; the PR checker
\* makes at most one listing call and the visibility checker one listing
\* call per organization it has come to.
NoRetry ==
    /\ \A i \in DOMAIN calls : responses[calls[i]] => i = Len(calls)
    /\ \A i \in DOMAIN hCalls : hCalls[i] = hFail => i = Len(hCalls)
    /\ Len(mListCalls) <= 1
    /\ Cardinality({i \in DOMAIN vCalls : IsOrgListCall(vCalls[i])})
           = vOi + (IF vPc = "repo" THEN 1 ELSE 0)

\* A step of the visibility checker that makes a call makes one call and
\* moves on to the next repository or organization, failed or not.
VisibilityMovesOn ==
    vCalls' # vCalls =>
        /\ Len(vCalls') = Len(vCalls) + 1
        /\ vRi' > vRi \/ vOi' > vOi

\* C21: with every call returning and finitely many pages, every scan of a
\* repository, every list helper call, the pass of the PR checker over its
\* repositories and the pass of the visibility checker over its
\* organizations come to their end; no page is asked for twice and no failed
\* call is made again.
C21_OnePassTerminates ==
    /\ (pc = "start") ~> (pc = "done")
    /\ (hPc = "start") ~> (hPc = "done")
    /\ (mPc = "start") ~> (mPc = "done")
    /\ (vPc = "run") ~> (vPc = "done")
    /\ [](NoPageTwice)
    /\ [](NoRetry)
    /\ [][VisibilityMovesOn]_vars

\* A scan over three pages has ended without error, each page asked for once.
C21_Witness ==
    /\ mPc = "idle"
    /\ pc = "done"
    /\ result.Error = NoError
    /\ Len(server) = 3
    /\ SelectSeq(calls, LAMBDA c : c.api = "GetPullRequests")
           = <<PageCall(1), PageCall(2), PageCall(3)>>

(***************************************************************************)
(* Properties of the counter of consecutive PRs outside the window.        *)
(***************************************************************************)
\* The step takes the PR at idx from the page.
TakesPR == pc = "examine" /\ examined' = Append(examined, prs[idx].number)

InsideUpdateWindow(p) == p.updatedAt >= cutoffTime

IsUnmerged(p) == p.mergedAt = 0

IsMergedBeforeCutoff(p) == p.mergedAt # 0 /\ p.mergedAt < cutoffTime

\* The range loop goes on with the rest of the page (or comes to its end).
RangeGoesOn ==
    /\ idx' = idx + 1
    /\ pc' = IF idx < Len(prs) THEN "examine" ELSE "endpage"
    /\ stopFetching' = FALSE

\* The range loop is left with stopFetching set.
RangeStops == stopFetching' /\ pc' \in {"endpage", "done"} /\ idx' = idx

PerPRThreshold ==
    (TakesPR /\ InsideUpdateWindow(prs[idx])) =>
        /\ IsMergedBeforeCutoff(prs[idx]) =>
              /\ consecutivePRsOutsideWindow' = consecutivePRsOutsideWindow + 1
              /\ IF consecutivePRsOutsideWindow' >= 20
                 THEN RangeStops ELSE RangeGoesOn
        /\ IsUnmerged(prs[idx]) =>
              /\ consecutivePRsOutsideWindow' = consecutivePRsOutsideWindow + 1
              /\ RangeGoesOn

\* Once stopFetching is set no PR is taken and no call made.
StoppedForGood ==
    stopFetching => (examined' = examined /\ calls' = calls /\ stopFetching')

\* C22: a PR merged before the cutoff stops the scan exactly when it leaves the
\* counter at 20 or more, and after the stop no PR is examined and no page
\* fetched; an unmerged PR adds one to the counter and never stops the scan.
C22_PerPRThresholdStop ==
    [][PerPRThreshold /\ StoppedForGood]_vars

\* One page of 21 unmerged PRs and then one merged before the cutoff: all 22
\* were examined, the counter went past 20 with the scan running, and the
\* last one stopped it.
C22_Witness ==
    /\ pc = "done"
    /\ stopFetching
    /\ Len(server) = 1
    /\ Len(examined) = 22
    /\ consecutivePRsOutsideWindow = 22
    /\ \A i \in 1..21 : IsUnmerged(server[1][i])
    /\ IsMergedBeforeCutoff(server[1][22])
    /\ Len(calls) = 1

\* The page just examined holds no PR merged inside the window.
ZeroInWindowOnPage ==
    \A i \in DOMAIN prs : IsUnmerged(prs[i]) \/ IsMergedBeforeCutoff(prs[i])

\* The end of a page that was not the last and on which no stop was triggered.
PageEndGoingOn == pc = "endpage" /\ ~stopFetching /\ respNextPage # 0

PageLevelDecay ==
    PageEndGoingOn =>
        /\ pc' = "loop"
        /\ calls' = calls
        /\ IF ZeroInWindowOnPage
           THEN /\ consecutivePRsOutsideWindow' = consecutivePRsOutsideWindow + 10
                /\ stopFetching' = ~(consecutivePRsOutsideWindow' < 20)
           ELSE /\ consecutivePRsOutsideWindow' = consecutivePRsOutsideWindow
                /\ stopFetching' = FALSE

\* At the loop head the next page is asked for unless stopFetching is set.
FetchUnlessStopped ==
    pc = "loop" =>
        IF stopFetching
        THEN calls' = calls /\ pc' = "done"
        ELSE calls' = Append(calls, PageCall(page))

\* C23: at the end of a page that was not the last and saw no stop, a page
\* without in-window merged PR adds 10 to the counter and the next page is
\* asked for only if the counter is then below 20; a page with an in-window
\* merged PR adds nothing and the next page is asked for whatever the counter.
C23_PageLevelDecay ==
    [][PageLevelDecay /\ FetchUnlessStopped]_vars

\* Page 1 held 9 unmerged PRs: 9 + 10 = 19, and page 2 was fetched.
C23_Witness ==
    /\ pc = "examine"
    /\ page = 2
    /\ idx = 1
    /\ Len(server[1]) = 9
    /\ consecutivePRsOutsideWindow = 19
    /\ calls = <<PageCall(1), PageCall(2)>>

IsMergedInWindow(p) == p.mergedAt # 0 /\ p.mergedAt >= cutoffTime

\* The step processes a PR merged inside the window.
ProcessesInWindowPR ==
    TakesPR /\ InsideUpdateWindow(prs[idx]) /\ IsMergedInWindow(prs[idx])

CounterReset ==
    IF ProcessesInWindowPR
    THEN consecutivePRsOutsideWindow' = 0
    ELSE consecutivePRsOutsideWindow' >= consecutivePRsOutsideWindow

\* C24: the step that processes a PR merged inside the window sets the counter
\* to zero, whatever PRs and page-level increases went into it; no other step
\* of a scan, the advance to the next page included, lowers it.
C24_CounterReset ==
    [][CounterReset]_vars

\* Page 1 held 9 unmerged PRs (9 + 10 = 19); the first PR of page 2, merged
\* inside the window, has set the counter to zero.
C24_Witness ==
    /\ page = 2
    /\ Len(server[1]) = 9
    /\ Len(examined) = 10
    /\ IsMergedInWindow(server[2][1])
    /\ mergedPRsInWindow = 1
    /\ consecutivePRsOutsideWindow = 0

(***************************************************************************)
(* What the scan reports.                                                  *)
(***************************************************************************)
\* No PR is merged later than it was last updated.
MergeNotAfterUpdate == \A p \in AllPRs : p.mergedAt <= p.updatedAt

IsStale(p) == p.updatedAt < cutoffTime

\* The scan has come to a PR updated before the cutoff.
MetStale == \E i \in DOMAIN examined : IsStale(PRof(examined[i]))

\* stopFetching was set by the counter at the threshold (per PR or at a page
\* end), not at a PR updated before the cutoff.
CounterStopFired ==
    stopFetching /\ consecutivePRsOutsideWindow >= 20 /\ ~MetStale

UnapprovedInWindow ==
    {p.number : p \in {q \in AllPRs : IsMergedInWindow(q) /\ ~VerdictRule(q.reviews)}}

\* C25: on a list sorted by update time, latest first, with no merge later
\* than the update, no PR after the first one updated before the cutoff is
\* merged inside the window; and a scan that ends without error and without
\* a counter-based stop reports exactly the PRs merged inside the window
\* whose verdict is 'not approved'.
C25_UpdateTimeExitLosesNothing ==
    (SortedByUpdatedDesc /\ MergeNotAfterUpdate) =>
        /\ \A p, q \in AllPRs :
              (IsStale(p) /\ q.number > p.number) => ~IsMergedInWindow(q)
        /\ (ScanEndedWithoutError /\ ~CounterStopFired) =>
              Found(result.UnapprovedPRs) = UnapprovedInWindow

\* Such a list, the scan ended at a PR updated before the cutoff with a PR
\* left unexamined behind it, and the unapproved merge before it is reported.
C25_Witness ==
    /\ SortedByUpdatedDesc /\ MergeNotAfterUpdate
    /\ ScanEndedWithoutError
    /\ MetStale
    /\ Len(examined) < Cardinality(AllPRs)
    /\ result.UnapprovedPRs # <<>>
    /\ Found(result.UnapprovedPRs) = UnapprovedInWindow

\* The page holds no PR merged inside the window.
Fruitless(pg) == \A i \in DOMAIN pg : ~IsMergedInWindow(pg[i])

PageFetches == {i \in DOMAIN calls : calls[i].api = "GetPullRequests"}

ReviewFetches == {i \in DOMAIN calls : calls[i].api = "ListPullRequestReviews"}

\* C26: after two pages in a row without a PR merged inside the window the
\* page after them is never asked for; so a repository without any PR merged
\* inside the window costs at most two page fetches and no review fetch.
C26_FruitlessPagesBounded ==
    /\ \A j \in DOMAIN server :
          (j + 2 \in DOMAIN server /\ Fruitless(server[j]) /\ Fruitless(server[j + 1]))
              => PageCall(j + 2) \notin Range(calls)
    /\ (\A j \in DOMAIN server : Fruitless(server[j])) =>
          (Cardinality(PageFetches) <= 2 /\ ReviewFetches = {})

\* Four pages: a PR merged inside the window, two pages of one unmerged PR
\* each, and a fourth page that was never asked for.
C26_Witness ==
    /\ ScanEndedWithoutError
    /\ Len(server) = 4
    /\ ~Fruitless(server[1]) /\ Fruitless(server[2]) /\ Fruitless(server[3])
    /\ calls = <<PageCall(1), ReviewCall(1), PageCall(2), PageCall(3)>>

\* The entry is a PR met in the scan, updated and merged not before the
\* cutoff, with verdict 'not approved'.
SoundFinding(n) ==
    /\ \E i \in DOMAIN examined : examined[i] = n
    /\ \E p \in AllPRs :
          /\ p.number = n
          /\ p.mergedAt # 0 /\ ~(p.mergedAt < cutoffTime)
          /\ ~(p.updatedAt < cutoffTime)
          /\ ~VerdictRule(p.reviews)

\* C27: every entry of the UnapprovedPRs returned (and of the list being
\* built) is a PR met in the scan, merged and updated not before the cutoff,
\* whose verdict is 'not approved'; no reviews are fetched for a PR that is
\* unmerged, merged before the cutoff or updated before the cutoff.
C27_FindingsSound ==
    /\ \A n \in Found(result.UnapprovedPRs) \cup Found(unapprovedPRs) :
          SoundFinding(n)
    /\ \A p \in AllPRs :
          (IsUnmerged(p) \/ IsMergedBeforeCutoff(p) \/ IsStale(p)) =>
              ReviewCall(p.number) \notin Range(calls)

\* Three PRs were examined: one is reported, one approved, one skipped; the
\* reviews of the first two were fetched.
C27_Witness ==
    /\ ScanEndedWithoutError
    /\ Len(examined) = 3
    /\ Len(result.UnapprovedPRs) = 1
    /\ skippedPRs = 1
    /\ Cardinality(ReviewFetches) = 2

(***************************************************************************)
(* The visibility scanner in mode private-only.                            *)
(***************************************************************************)
\* C28: in mode private-only Checker.Run has no finding, in the list being
\* built, in the lists gathered and in what it returns, and makes no call but
\* the listings of the organizations, whatever repositories are listed.
C28_PrivateOnlyYieldsNothing ==
    vCfg.RepoVisibility = "private-only" =>
        /\ recentlyPublic = <<>>
        /\ allPublicRepos = <<>>
        /\ vOut.findings = <<>>
        /\ \A i \in DOMAIN vOrgLog : vOrgLog[i].found = <<>>
        /\ \A i \in DOMAIN vCalls : vCalls[i].api = "ListOrganizationRepositories"

\* Mode private-only: the listing held a public repository created at the
\* cutoff and a public one created before it; both were gone through without
\* finding and without events call.
C28_Witness ==
    /\ vCfg.RepoVisibility = "private-only"
    /\ vPc = "repo"
    /\ Len(vRepos) = 2
    /\ vRi = 3
    /\ ~vRepos[1].private /\ vRepos[1].createdAt = visCutoffTime
    /\ ~vRepos[2].private /\ vRepos[2].createdAt = visCutoffTime - 1
    /\ recentlyPublic = <<>>
    /\ Len(vCalls) = 1

(***************************************************************************)
(* PRs without update time.                                                *)
(***************************************************************************)
HasNoUpdateTime(p) == p.updatedAt = 0

\* The step that takes a PR without update time stops the scan there.
StopsAtAbsentUpdateTime ==
    (TakesPR /\ HasNoUpdateTime(prs[idx])) =>
        /\ stopFetching'
        /\ pc' = "endpage"
        /\ skippedPRs' = skippedPRs
        /\ calls' = calls
        /\ unapprovedPRs' = unapprovedPRs

\* Neither such a PR nor any PR behind it is among the findings.
NothingReportedFromAbsentOn ==
    \A p \in AllPRs :
        HasNoUpdateTime(p) =>
            \A n \in Found(result.UnapprovedPRs) \cup Found(unapprovedPRs) :
                n < p.number

\* C29: a PR without update time counts as updated before the cutoff: the
\* scan stops at it, does not count it as skipped and does not fetch its
\* reviews, even when it was merged inside the window; that PR and every PR
\* behind it are never reported.
C29_AbsentUpdateTimeHalts ==
    [][StopsAtAbsentUpdateTime]_vars /\ [](NothingReportedFromAbsentOn)

\* The first PR, merged inside the window and unapproved, has no update time;
\* an unapproved in-window merge stands behind it; the scan ended with no
\* finding, nothing skipped and no review fetched.
C29_Witness ==
    /\ ScanEndedWithoutError
    /\ stopFetching
    /\ examined = <<1>>
    /\ \E p, q \in AllPRs :
          /\ p.number = 1 /\ HasNoUpdateTime(p) /\ IsMergedInWindow(p)
          /\ ~VerdictRule(p.reviews)
          /\ q.number = 2 /\ ~IsStale(q) /\ IsMergedInWindow(q)
          /\ ~VerdictRule(q.reviews)
    /\ result.UnapprovedPRs = <<>>
    /\ skippedPRs = 0
    /\ ReviewFetches = {}

(***************************************************************************)
(* What runPRChecker hands to the report.                                  *)
(***************************************************************************)
\* C30: when runPRChecker returns, every result of Monitor without error and
\* with unapproved PRs is among the problematic results, wherever the results
\* with errors stand in the list.
C30_ReportComplete ==
    rPc = "done" =>
        \A i \in DOMAIN rResults :
            (rResults[i].Error = NoError /\ rResults[i].UnapprovedPRs # <<>>) =>
                \E j \in DOMAIN problematicResults :
                    problematicResults[j] = rResults[i]

=============================================================================
